---------------------------- MODULE Spec2Model ----------------------------
(***************************************************************************)
(* Capability discovery and dynamic command protocol of the Sony audio     *)
(* integration driver: the settings cache (settings_cache.py), the command *)
(* namespace compiler (remote_entity.py) and the command dispatcher        *)
(* (driver.py cmd_handler), talking to one device through the RPC client   *)
(* (sony_client.py).                                                       *)
(*                                                                         *)
(* Python strings are TLA+ strings (TLC evaluates Len, SubSeq, Head, Tail  *)
(* and \o on them); Python dicts are records, a missing key being a        *)
(* missing field; Python lists are sequences.  Speaker levels are integers *)
(* in tenths of a dB.                                                      *)
(***************************************************************************)
EXTENDS Integers, Sequences, FiniteSets, TLC

(***************************************************************************)
(* Python str operations                                                   *)
(***************************************************************************)
LowerLetters == "abcdefghijklmnopqrstuvwxyz"
UpperLetters == "ABCDEFGHIJKLMNOPQRSTUVWXYZ"
Digits == "0123456789"

\* s[i:] with a 0-based Python index i >= 0
From(s, i) == SubSeq(s, i + 1, Len(s))

\* s.startswith(p)
StartsWith(s, p) == Len(p) <= Len(s) /\ SubSeq(s, 1, Len(p)) = p

\* s.endswith(p)
EndsWith(s, p) == Len(p) <= Len(s) /\ SubSeq(s, Len(s) - Len(p) + 1, Len(s)) = p

\* s.find(sub) + 1: the 1-based position of the first occurrence, 0 when absent
Find(s, sub) ==
    LET hits == {i \in 1..(Len(s) - Len(sub) + 1) : SubSeq(s, i, i + Len(sub) - 1) = sub}
    IN  IF hits = {} THEN 0 ELSE CHOOSE i \in hits : \A j \in hits : i <= j

\* s.rfind(sub) + 1
RFind(s, sub) ==
    LET hits == {i \in 1..(Len(s) - Len(sub) + 1) : SubSeq(s, i, i + Len(sub) - 1) = sub}
    IN  IF hits = {} THEN 0 ELSE CHOOSE i \in hits : \A j \in hits : i >= j

\* sub in s
Contains(s, sub) == Find(s, sub) # 0

\* s.replace(old, new), old non-empty: every non-overlapping occurrence, left to right
RECURSIVE Replace(_, _, _)
Replace(s, old, new) ==
    LET i == Find(s, old)
    IN  IF i = 0 THEN s
        ELSE SubSeq(s, 1, i - 1) \o new \o Replace(SubSeq(s, i + Len(old), Len(s)), old, new)

\* s.split(sep, maxsplit), sep non-empty
RECURSIVE SplitMax(_, _, _)
SplitMax(s, sep, maxsplit) ==
    LET i == Find(s, sep)
    IN  IF maxsplit = 0 \/ i = 0 THEN <<s>>
        ELSE <<SubSeq(s, 1, i - 1)>> \o SplitMax(SubSeq(s, i + Len(sep), Len(s)), sep, maxsplit - 1)

\* s.split(sep)
Split(s, sep) == SplitMax(s, sep, Len(s))

\* s.rsplit(sep, 1)
RSplit1(s, sep) ==
    LET i == RFind(s, sep)
    IN  IF i = 0 THEN <<s>>
        ELSE <<SubSeq(s, 1, i - 1), SubSeq(s, i + Len(sep), Len(s))>>

UpperChar(c) ==
    LET i == Find(LowerLetters, c) IN IF i = 0 THEN c ELSE SubSeq(UpperLetters, i, i)

LowerChar(c) ==
    LET i == Find(UpperLetters, c) IN IF i = 0 THEN c ELSE SubSeq(LowerLetters, i, i)

\* s.upper()
RECURSIVE Upper(_)
Upper(s) == IF s = "" THEN "" ELSE UpperChar(Head(s)) \o Upper(Tail(s))

\* s.lower()
RECURSIVE Lower(_)
Lower(s) == IF s = "" THEN "" ELSE LowerChar(Head(s)) \o Lower(Tail(s))

\* whether int(c) succeeds on the one-character string c
IsDigit(c) == Len(c) = 1 /\ Contains(Digits, c)

\* int(c) for a digit c
DigitValue(c) == Find(Digits, c) - 1

\* str(n) for 0 <= n <= 9
DigitStr(n) == SubSeq(Digits, n + 1, n + 1)

\* d.get(k, default)
Get(d, k, default) == IF k \in DOMAIN d THEN d[k] ELSE default

\* d[k] == v for a key that may be missing (d.get(k) == v, v not None)
GetIs(d, k, v) == k \in DOMAIN d /\ d[k] = v

\* an Optional value: None is the empty sequence, a value x is <<x>>
Nothing == <<>>
Some(x) == <<x>>


(***************************************************************************)
(* settings_cache.py: queries on a cache c = [sound_settings,              *)
(* speaker_settings, zones, last_refresh]                                  *)
(***************************************************************************)
\* the first element of seq satisfying Test, as a one-element sequence, or <<>>
FirstWhere(seq, Test(_)) ==
    LET hits == {i \in 1..Len(seq) : Test(seq[i])}
    IN  IF hits = {} THEN <<>>
        ELSE <<seq[CHOOSE i \in hits : \A j \in hits : i <= j]>>

\* the concatenation of a sequence of sequences
RECURSIVE Flatten(_)
Flatten(ss) == IF ss = <<>> THEN <<>> ELSE Head(ss) \o Flatten(Tail(ss))

\* value in list
InSeq(x, seq) == \E i \in 1..Len(seq) : seq[i] = x

\* Optional setting: sound settings are searched first, then speaker settings
get_setting_by_target(c, target) ==
    LET HasTarget(s) == GetIs(s, "target", target)
        inSound == FirstWhere(c.sound_settings, HasTarget)
        inSpeaker == FirstWhere(c.speaker_settings, HasTarget)
    IN  IF inSound # <<>> THEN inSound
        ELSE IF inSpeaker # <<>> THEN inSpeaker
        ELSE Nothing

\* whether Python takes the branch `if not setting` (None or an empty dict)
NoSetting(setting) == setting = Nothing \/ DOMAIN setting[1] = {}

\* list of (value, title)
get_available_sound_field_values(c) ==
    LET sound_field == get_setting_by_target(c, "soundField")
        Avail(cand) == Get(cand, "isAvailable", TRUE)
        Pair(cand) == <<Get(cand, "value", ""), Get(cand, "title", Get(cand, "value", ""))>>
    IN  IF NoSetting(sound_field) THEN <<>>
        ELSE LET cands == SelectSeq(Get(sound_field[1], "candidate", <<>>), Avail)
             IN  [i \in 1..Len(cands) |-> Pair(cands[i])]

\* list of (target, title, values)
get_available_boolean_settings(c) ==
    LET Toggle(s) == /\ (GetIs(s, "type", "booleanTarget") \/ GetIs(s, "type", "enumTarget"))
                     /\ Get(s, "isAvailable", TRUE)
        Triple(s) == LET cands == Get(s, "candidate", <<>>)
                     IN  <<Get(s, "target", ""),
                           Get(s, "title", Get(s, "target", "")),
                           [i \in 1..Len(cands) |-> Get(cands[i], "value", "")]>>
        sel == SelectSeq(c.sound_settings, Toggle)
    IN  [i \in 1..Len(sel) |-> Triple(sel[i])]

\* float(candidate.get("min", -10)), ("max", 10), ("step", 0.5), in tenths of a dB
DefaultMin == -100
DefaultMax == 100
DefaultStep == 5

\* the speaker settings get_available_speaker_controls iterates past its filters
SpeakerControlSettings(c) ==
    LET Numeric(s) == /\ GetIs(s, "type", "doubleNumberTarget")
                      /\ Get(s, "isAvailable", TRUE)
    IN  SelectSeq(c.speaker_settings, Numeric)

\* setting.get("candidate", [{}])[0] raises IndexError on an empty candidate list
SpeakerControlsRaises(c) ==
    \E i \in 1..Len(SpeakerControlSettings(c)) :
        Get(SpeakerControlSettings(c)[i], "candidate", <<[min |-> DefaultMin]>>) = <<>>

\* list of (target, title, min, max, step), when no IndexError is raised
get_available_speaker_controls(c) ==
    LET Control(s) ==
            LET candidate == Get(s, "candidate", <<[min |-> DefaultMin]>>)[1]
            IN  <<Get(s, "target", ""),
                  Get(s, "title", Get(s, "target", "")),
                  Get(candidate, "min", DefaultMin),
                  Get(candidate, "max", DefaultMax),
                  Get(candidate, "step", DefaultStep)>>
        sel == SpeakerControlSettings(c)
    IN  [i \in 1..Len(sel) |-> Control(sel[i])]

get_current_value(c, target) ==
    LET setting == get_setting_by_target(c, target)
    IN  IF NoSetting(setting) THEN Nothing
        ELSE IF "currentValue" \in DOMAIN setting[1] THEN Some(setting[1].currentValue)
        ELSE Nothing

\* a validation that accepts the value of any setting with the target, in either domain
validate_in_any_setting(c, target, value) ==
    \E settings \in {c.sound_settings, c.speaker_settings} :
        \E n \in 1..Len(settings) :
            /\ GetIs(settings[n], "target", target)
            /\ LET candidates == Get(settings[n], "candidate", <<>>)
               IN  \E i \in 1..Len(candidates) : GetIs(candidates[i], "value", value)

validate_setting_value(c, target, value) ==
    LET setting == get_setting_by_target(c, target)
    IN  IF NoSetting(setting) THEN FALSE
        ELSE LET candidates == Get(setting[1], "candidate", <<>>)
             IN  \E i \in 1..Len(candidates) : GetIs(candidates[i], "value", value)

(***************************************************************************)
(* sony_client.py: one SonyAudioDevice instance.  _session is none (None),  *)
(* open or closed; _device_info is an Optional.  An operation gives the    *)
(* instance after it, the number of HTTP requests it sent, the exception   *)
(* it raised ("" for none), the SonyApiError fields and the returned value.*)
(***************************************************************************)
\* SonyAudioDevice.__init__
NewClient == [session |-> "none", device_info |-> Nothing, new |-> TRUE]

\* an _ensure_session that creates a session only when there is none
ensure_session_once(c) == IF c.session = "none" THEN [c EXCEPT !.session = "open"] ELSE c

\* _ensure_session: a new ClientSession unless one exists and is not closed
ensure_session(c) == IF c.session \in {"none", "closed"} THEN [c EXCEPT !.session = "open"] ELSE c

\* what an HTTP request can come to: a JSON body, or a failure of the transport
\* (aiohttp.ClientError, an HTTP error status) or the timeout
Returned(c, sent, value) ==
    [client |-> c, sent |-> sent, raised |-> "", error |-> Nothing, value |-> value]
Raised(c, sent, exception, error) ==
    [client |-> c, sent |-> sent, raised |-> exception, error |-> error, value |-> Nothing]

\* SonyApiError(code, message, method)
SonyApiError(code, message, method) == [code |-> code, message |-> message, method |-> method]

\* a _call that takes the result of a body that holds both a result and an error
call_result_first(c, method, reply) ==
    LET c1 == [ensure_session(c) EXCEPT !.new = FALSE]
    IN  IF reply.kind = "transport" THEN Raised(c1, 1, "ClientError", Nothing)
        ELSE IF reply.kind = "timeout" THEN Raised(c1, 1, "TimeoutError", Nothing)
        ELSE IF "error" \in DOMAIN reply.data /\ "result" \notin DOMAIN reply.data
        THEN Raised(c1, 1, "SonyApiError",
                    Some(SonyApiError(IF reply.data.error # <<>> THEN reply.data.error[1] ELSE "unknown",
                                      IF Len(reply.data.error) > 1 THEN reply.data.error[2] ELSE "",
                                      method)))
        ELSE Returned(c1, 1, Some(reply.data))

\* _call: one session.post; a closed session raises before a request is sent
call(c, method, reply) ==
    LET c1 == [ensure_session(c) EXCEPT !.new = FALSE]
    IN  IF c1.session # "open" THEN Raised(c1, 0, "RuntimeError", Nothing)
        ELSE IF reply.kind = "transport" THEN Raised(c1, 1, "ClientError", Nothing)
        ELSE IF reply.kind = "timeout" THEN Raised(c1, 1, "TimeoutError", Nothing)
        ELSE IF "error" \in DOMAIN reply.data
        THEN Raised(c1, 1, "SonyApiError",
                    Some(SonyApiError(IF reply.data.error # <<>> THEN reply.data.error[1] ELSE "unknown",
                                      IF Len(reply.data.error) > 1 THEN reply.data.error[2] ELSE "",
                                      method)))
        ELSE Returned(c1, 1, Some(reply.data))

\* result["result"][0] of a returned body
FirstResult(r) ==
    IF r.raised # "" THEN r
    ELSE IF "result" \notin DOMAIN r.value[1] THEN Raised(r.client, r.sent, "KeyError", Nothing)
    ELSE IF r.value[1].result = <<>> THEN Raised(r.client, r.sent, "IndexError", Nothing)
    ELSE Returned(r.client, r.sent, Some(r.value[1].result[1]))

\* a get_device_info that fetches on every call
get_device_info_uncached(c, reply) ==
    LET r == FirstResult(call(c, "getSystemInformation", reply))
    IN  IF r.raised # "" THEN r
        ELSE Returned([r.client EXCEPT !.device_info = r.value], r.sent, r.value)

get_device_info(c, reply) ==
    IF c.device_info = Nothing
    THEN LET r == FirstResult(call(c, "getSystemInformation", reply))
         IN  IF r.raised # "" THEN r
             ELSE Returned([r.client EXCEPT !.device_info = r.value], r.sent, r.value)
    ELSE Returned([c EXCEPT !.new = FALSE], 0, c.device_info)

\* a connect without the try / except
connect_unguarded(c, reply) ==
    LET r == get_device_info(c, reply)
    IN  IF r.raised # "" THEN r ELSE Returned(r.client, r.sent, Some(r.value # Nothing))

\* connect: info is not None, False on any Exception
connect(c, reply) ==
    LET r == get_device_info(c, reply)
    IN  IF r.raised # "" THEN Returned(r.client, r.sent, Some(FALSE))
        ELSE Returned(r.client, r.sent, Some(r.value # Nothing))

get_volume_info(c, reply) == FirstResult(call(c, "getVolumeInformation", reply))

\* set_power_status: the body is not read
set_power_status(c, reply) ==
    LET r == call(c, "setPowerStatus", reply)
    IN  IF r.raised # "" THEN r ELSE Returned(r.client, r.sent, Nothing)

(***************************************************************************)
(* remote_entity.py: the command namespace compiler and its inverse        *)
(***************************************************************************)
BaseCommands ==
    <<"POWER_ON", "POWER_OFF", "POWER_TOGGLE", "VOLUME_UP", "VOLUME_DOWN",
      "MUTE_ON", "MUTE_OFF", "MUTE_TOGGLE">>

\* the SOUND_FIELD_<VALUE> command of one sound field value
SoundFieldCommand(value) == "SOUND_FIELD_" \o Upper(value)

\* the SOUND_<TARGET>_<VALUE> command of one value of a toggle setting
SoundSettingCommand(target, value) == "SOUND_" \o Upper(target) \o "_" \o Upper(value)

\* base_cmd of a speaker control: "Level"/"level" removed, upper-cased
SpeakerBaseName(target) == Upper(Replace(Replace(target, "Level", ""), "level", ""))

SpeakerCommands(target) ==
    <<"SPEAKER_" \o SpeakerBaseName(target) \o "_UP",
      "SPEAKER_" \o SpeakerBaseName(target) \o "_DOWN">>

\* a compiler without the `if zone > 1` test
ZoneCommandsEveryZone(zone) ==
    <<"ZONE" \o DigitStr(zone) \o "_VOLUME_UP",
      "ZONE" \o DigitStr(zone) \o "_VOLUME_DOWN",
      "ZONE" \o DigitStr(zone) \o "_MUTE_TOGGLE",
      "ZONE" \o DigitStr(zone) \o "_ACTIVATE",
      "ZONE" \o DigitStr(zone) \o "_DEACTIVATE">>

ZoneCommands(zone) ==
    <<"ZONE" \o DigitStr(zone) \o "_VOLUME_UP",
      "ZONE" \o DigitStr(zone) \o "_VOLUME_DOWN",
      "ZONE" \o DigitStr(zone) \o "_MUTE_TOGGLE">>
    \o (IF zone > 1
        THEN <<"ZONE" \o DigitStr(zone) \o "_ACTIVATE", "ZONE" \o DigitStr(zone) \o "_DEACTIVATE">>
        ELSE <<>>)

\* source_uri.split("port=")[1].split("&")[0]
HdmiPort(source_uri) == Split(Split(source_uri, "port=")[2], "&")[1]

\* source_uri.split("extInput:")[1].split("?")[0]
LabeledName(source_uri) == Split(Split(source_uri, "extInput:")[2], "?")[1]

\* the commands create_simple_commands appends for one source: one or none
InputCommand(source) ==
    LET source_uri == Get(source, "source", "")
    IN  IF source_uri = "" THEN <<>>
        ELSE IF Contains(source_uri, "hdmi") /\ Contains(source_uri, "port=")
            THEN <<"INPUT_HDMI" \o HdmiPort(source_uri)>>
        ELSE IF Contains(source_uri, "tv") \/ source_uri = "extInput:tv" THEN <<"INPUT_TV">>
        ELSE IF Contains(source_uri, "btAudio") THEN <<"INPUT_BLUETOOTH">>
        ELSE IF Contains(source_uri, "line") THEN <<"INPUT_ANALOG">>
        ELSE IF Contains(source_uri, "airPlay") THEN <<"INPUT_AIRPLAY">>
        ELSE IF Contains(source_uri, "usb") THEN <<"INPUT_USB">>
        ELSE IF StartsWith(source_uri, "extInput:")
            THEN <<"INPUT_" \o Replace(Replace(Upper(LabeledName(source_uri)), "-", "_"), " ", "_")>>
        ELSE <<>>

create_simple_commands(sources, c) ==
    LET sound_field_values == get_available_sound_field_values(c)
        boolean_settings == get_available_boolean_settings(c)
        speaker_controls == get_available_speaker_controls(c)
    IN  BaseCommands
        \o [i \in 1..Len(sound_field_values) |-> SoundFieldCommand(sound_field_values[i][1])]
        \o Flatten([i \in 1..Len(boolean_settings) |->
                       [j \in 1..Len(boolean_settings[i][3]) |->
                           SoundSettingCommand(boolean_settings[i][1], boolean_settings[i][3][j])]])
        \o Flatten([i \in 1..Len(speaker_controls) |-> SpeakerCommands(speaker_controls[i][1])])
        \o Flatten([i \in 1..Len(c.zones) |-> ZoneCommands(c.zones[i])])
        \o Flatten([i \in 1..Len(sources) |-> InputCommand(sources[i])])
        \o <<"REFRESH_SETTINGS">>

\* whether one iteration of get_input_uri_from_command's loop returns source_uri
InputMatch(command, source_uri) ==
    IF command = "INPUT_TV" /\ Contains(source_uri, "tv") THEN TRUE
    ELSE IF /\ StartsWith(command, "INPUT_HDMI")
            /\ Contains(source_uri, "hdmi")
            /\ Contains(source_uri, "port=")
        THEN Contains(source_uri, "port=" \o Replace(command, "INPUT_HDMI", ""))
    ELSE IF command = "INPUT_BLUETOOTH" /\ Contains(source_uri, "btAudio") THEN TRUE
    ELSE IF command = "INPUT_ANALOG" /\ Contains(source_uri, "line") THEN TRUE
    ELSE IF command = "INPUT_AIRPLAY" /\ Contains(source_uri, "airPlay") THEN TRUE
    ELSE IF command = "INPUT_USB" /\ Contains(source_uri, "usb") THEN TRUE
    ELSE IF StartsWith(command, "INPUT_") /\ StartsWith(source_uri, "extInput:")
        THEN source_uri = "extInput:" \o Lower(Replace(Replace(command, "INPUT_", ""), "_", "-"))
    ELSE FALSE


\* ucapi.ui.create_btn_mapping(button, short_press)
create_btn_mapping(button, short_press) == [button |-> button, short_press |-> short_press]

\* the command create_button_mappings appends to input_commands for one source: one or none
CyclingCommand(source) ==
    LET source_uri == Get(source, "source", "")
    IN  IF Contains(source_uri, "hdmi") /\ Contains(source_uri, "port=")
            THEN <<"INPUT_HDMI" \o HdmiPort(source_uri)>>
        ELSE IF Contains(source_uri, "tv") THEN <<"INPUT_TV">>
        ELSE IF Contains(source_uri, "btAudio") THEN <<"INPUT_BLUETOOTH">>
        ELSE IF Contains(source_uri, "line") THEN <<"INPUT_ANALOG">>
        ELSE IF Contains(source_uri, "airPlay") THEN <<"INPUT_AIRPLAY">>
        ELSE <<>>

RECURSIVE CyclingCommands(_)
CyclingCommands(srcs) ==
    IF srcs = <<>> THEN <<>> ELSE CyclingCommand(Head(srcs)) \o CyclingCommands(Tail(srcs))

create_button_mappings(srcs) ==
    LET input_commands == CyclingCommands(srcs)
        Has(command) == InSeq(command, input_commands)
        When(cond, button, command) ==
            IF cond THEN <<create_btn_mapping(button, command)>> ELSE <<>>
    IN  <<create_btn_mapping("POWER", "POWER_TOGGLE"),
          create_btn_mapping("VOLUME_UP", "VOLUME_UP"),
          create_btn_mapping("VOLUME_DOWN", "VOLUME_DOWN"),
          create_btn_mapping("MUTE", "MUTE_TOGGLE")>>
        \o (IF Len(input_commands) >= 2
            THEN <<create_btn_mapping("CHANNEL_UP", input_commands[2]),
                   create_btn_mapping("CHANNEL_DOWN", input_commands[1])>>
            ELSE <<>>)
        \o When(Has("INPUT_TV"), "HOME", "INPUT_TV")
        \o When(Has("INPUT_HDMI1"), "BACK", "INPUT_HDMI1")
        \o (IF Len(input_commands) >= 1
            THEN When(Has("INPUT_TV"), "DPAD_UP", "INPUT_TV")
                 \o When(Has("INPUT_HDMI1"), "DPAD_LEFT", "INPUT_HDMI1")
                 \o When(Has("INPUT_HDMI2"), "DPAD_RIGHT", "INPUT_HDMI2")
                 \o When(Has("INPUT_BLUETOOTH"), "DPAD_DOWN", "INPUT_BLUETOOTH")
                 \o <<create_btn_mapping("DPAD_MIDDLE", "MUTE_TOGGLE")>>
            ELSE <<>>)

\* a UiPage, as its page id and the cmd of each of its items that carries one, in order
UiPage(page_id, commands) == [page_id |-> page_id, commands |-> commands]

\* seq[:n]
Take(seq, n) == SubSeq(seq, 1, IF n <= Len(seq) THEN n ELSE Len(seq))

\* the cmd create_ui_pages gives the icon and the text of one source: twice, or none
UiInputCommands(source) ==
    LET source_uri == Get(source, "source", "")
        cmd == IF source_uri = "" THEN <<>>
               ELSE IF Contains(source_uri, "hdmi") /\ Contains(source_uri, "port=")
                   THEN <<"INPUT_HDMI" \o HdmiPort(source_uri)>>
               ELSE IF Contains(source_uri, "tv") THEN <<"INPUT_TV">>
               ELSE IF Contains(source_uri, "btAudio") THEN <<"INPUT_BLUETOOTH">>
               ELSE IF Contains(source_uri, "line") THEN <<"INPUT_ANALOG">>
               ELSE IF Contains(source_uri, "airPlay") THEN <<"INPUT_AIRPLAY">>
               ELSE IF StartsWith(source_uri, "extInput:")
                   THEN <<"INPUT_" \o Replace(Replace(Upper(LabeledName(source_uri)), "-", "_"), " ", "_")>>
               ELSE <<>>
    IN  cmd \o cmd

\* the system page: dimmer and HDMI output icons, whatever the device offers
SystemPageCommands ==
    <<"SYSTEM_DIMMER_BRIGHT", "SYSTEM_DIMMER_DARK", "SYSTEM_DIMMER_OFF",
      "SYSTEM_HDMI_OUTPUT_A", "SYSTEM_HDMI_OUTPUT_B", "SYSTEM_HDMI_OUTPUT_AB",
      "SYSTEM_HDMI_OUTPUT_OFF">>

\* the pages create_ui_pages builds from the sources and the cache
DynamicPages(srcs, c) ==
    LET sound_field_values == Take(get_available_sound_field_values(c), 4)
        boolean_settings == Take(get_available_boolean_settings(c), 6)
        speaker_controls == get_available_speaker_controls(c)
    IN  <<UiPage("main", <<"POWER_ON", "POWER_OFF", "VOLUME_UP", "VOLUME_DOWN", "MUTE_TOGGLE">>)>>
        \o (IF srcs # <<>>
            THEN <<UiPage("inputs", Flatten([i \in 1..Len(srcs) |-> UiInputCommands(srcs[i])]))>>
            ELSE <<>>)
        \o (IF c.sound_settings # <<>>
            THEN <<UiPage("sound",
                     [i \in 1..Len(sound_field_values) |-> SoundFieldCommand(sound_field_values[i][1])]
                     \o Flatten([i \in 1..Len(boolean_settings) |->
                            [j \in 1..Len(Take(boolean_settings[i][3], 2)) |->
                                SoundSettingCommand(boolean_settings[i][1], boolean_settings[i][3][j])]]))>>
            ELSE <<>>)
        \o (IF speaker_controls # <<>>
            THEN <<UiPage("speakers",
                     Flatten([i \in 1..Len(speaker_controls) |-> SpeakerCommands(speaker_controls[i][1])]))>>
            ELSE <<>>)
        \o (IF Len(c.zones) > 1
            THEN <<UiPage("zones", Flatten([i \in 1..Len(c.zones) |-> ZoneCommands(c.zones[i])]))>>
            ELSE <<>>)

\* create_ui_pages(sources, device_name, settings_cache)
create_ui_pages(srcs, c) ==
    DynamicPages(srcs, c) \o <<UiPage("system", SystemPageCommands)>>

\* Optional uri: the first source the loop returns, None when it falls through
get_input_uri_from_command(command, sources) ==
    LET Hit(source) == InputMatch(command, Get(source, "source", ""))
        first == FirstWhere(sources, Hit)
    IN  IF first = <<>> THEN Nothing ELSE Some(Get(first[1], "source", ""))

(***************************************************************************)
(* The device: what it reports to the discovery calls of sony_client.py.   *)
(* A device configuration fixes the reported sound settings, speaker       *)
(* settings and the zones that answer a volume query; the speaker levels   *)
(* are device state of their own.                                          *)
(***************************************************************************)
EnumCandidate(value, avail) == [value |-> value, title |-> value, isAvailable |-> avail]

SoundFieldSetting(avail2ch) ==
    [target |-> "soundField", type |-> "enumTarget", isAvailable |-> TRUE, currentValue |-> "off",
     candidate |-> <<EnumCandidate("off", TRUE), EnumCandidate("2chStereo", avail2ch)>>]

DimmerSetting ==
    [target |-> "dimmer", type |-> "enumTarget", isAvailable |-> TRUE, currentValue |-> "bright",
     candidate |-> <<EnumCandidate("bright", TRUE), EnumCandidate("off", TRUE)>>]

HdmiOutputSetting ==
    [target |-> "hdmiOutput", type |-> "enumTarget", isAvailable |-> TRUE, currentValue |-> "hdmi_A",
     candidate |-> <<EnumCandidate("hdmi_A", TRUE), EnumCandidate("hdmi_B", TRUE)>>]

PureDirectSetting(avail) ==
    [target |-> "pureDirect", type |-> "booleanTarget", isAvailable |-> avail, currentValue |-> "off",
     candidate |-> <<EnumCandidate("on", TRUE), EnumCandidate("off", TRUE)>>]

LevelSetting(target, avail, level, range) ==
    [target |-> target, type |-> "doubleNumberTarget", isAvailable |-> avail,
     currentValue |-> level, candidate |-> <<range>>]

SpeakerSelectionSetting ==
    [target |-> "speakerSelection", type |-> "enumTarget", isAvailable |-> TRUE, currentValue |-> "a",
     candidate |-> <<EnumCandidate("a", TRUE), EnumCandidate("b", TRUE)>>]

\* the speaker targets whose level the device holds, and the levels it can hold
SpeakerTargets == {"centerLevel", "subwooferLevel"}
LevelValues(target) == IF target = "centerLevel" THEN {-110, 97} ELSE {0}
DeviceLevels ==
    {lv \in [SpeakerTargets -> UNION {LevelValues(tg) : tg \in SpeakerTargets}] :
        \A tg \in SpeakerTargets : lv[tg] \in LevelValues(tg)}

FullRange == [min |-> -100, max |-> 100, step |-> 5]
\* the device omits min, max and step: the defaults apply
NoRange == [title |-> ""]

NumConfigs == 2

\* getSoundSettings result of configuration k
DeviceSound(k) ==
    CASE k = 1 -> <<SoundFieldSetting(TRUE), DimmerSetting, HdmiOutputSetting>>
      [] k = 2 -> <<SoundFieldSetting(FALSE), PureDirectSetting(TRUE)>>
      [] OTHER -> <<DimmerSetting, PureDirectSetting(FALSE)>>

\* getSpeakerSettings result of configuration k with the levels lv
DeviceSpeaker(k, lv) ==
    CASE k = 1 -> <<LevelSetting("centerLevel", TRUE, lv["centerLevel"], FullRange),
                    LevelSetting("subwooferLevel", TRUE, lv["subwooferLevel"], NoRange)>>
      [] k = 2 -> <<SpeakerSelectionSetting,
                    LevelSetting("subwooferLevel", FALSE, lv["subwooferLevel"], NoRange),
                    LevelSetting("centerLevel", TRUE, lv["centerLevel"], FullRange)>>
      [] OTHER -> <<LevelSetting("subwooferLevel", TRUE, lv["subwooferLevel"], NoRange),
                    LevelSetting("centerLevel", TRUE, lv["centerLevel"], FullRange)>>

\* the zones other than the main zone that answer getVolumeInformation
DeviceZones(k) == CASE k = 1 -> {} [] k = 2 -> {2, 3} [] OTHER -> {2}

Source(uri) == [source |-> uri, title |-> uri]

\* the source list discover_all_sources stored at setup
SourceChoices ==
    { <<Source("extInput:tv"), Source("extInput:hdmi?port=1"), Source("extInput:btAudio")>> }

\* source URIs a device reports: HDMI ports, fixed-named inputs and the labeled inputs
\* create_simple_commands names (game, bd-dvd, sat-catv, mediaBox)
SourceUris ==
    {"extInput:tv", "extInput:hdmi?port=1", "extInput:hdmi?port=2", "extInput:btAudio",
     "extInput:game", "extInput:bd-dvd", "extInput:sat-catv", "extInput:mediaBox"}

\* the longest source list discovery returns
MaxSources == 2

\* discovery's results: lists of sources with pairwise distinct URIs
SourceLists ==
    UNION {{[i \in 1..n |-> Source(us[i])] :
               us \in {x \in [1..n -> SourceUris] : \A i, j \in 1..n : i # j => x[i] # x[j]}} :
           n \in 1..MaxSources}

(***************************************************************************)
(* driver.py cmd_handler: the synchronous code from the handler's entry to *)
(* its first await, as a function of what it reads.  The result is either  *)
(* a returned status or the first RPC call and the continuation awaiting   *)
(* it.                                                                     *)
(***************************************************************************)
\* one RPC call of sony_client.py: method, arguments, result (pending, ok, fail)
\* and, for a volume query, the mute state the device reported
Call(m, a) == [m |-> m, a |-> a, r |-> "pending", res |-> ""]
NoCall == [m |-> "", a |-> <<>>, r |-> "", res |-> ""]

\* the handler's locals that live across an await
NoLoc == [remaining |-> 0, delta |-> "", new_state |-> "", zone |-> 0, zones |-> <<>>]

Ret(status) == [kind |-> "return", status |-> status, next |-> "", req |-> NoCall, loc |-> NoLoc]
Await(next, req, l) == [kind |-> "call", status |-> "", next |-> next, req |-> req, loc |-> l]

\* zone calls that address the main output
ZoneUriMain(zone) == ""

\* f"extOutput:zone?zone={zone}"
ZoneUri(zone) == "extOutput:zone?zone=" \o DigitStr(zone)

Min2(a, b) == IF a <= b THEN a ELSE b
Max2(a, b) == IF a >= b THEN a ELSE b

\* the level SPEAKER_<NAME>_UP / _DOWN requests
NewLevel(direction, current_value, step, min_val, max_val) ==
    IF direction = "up" THEN Min2(current_value + step, max_val)
    ELSE Max2(current_value - step, min_val)

\* a dispatcher that compares the whole upper-cased target with the command's name
SpeakerTargetNameUnstripped(target) == Upper(target)

\* target_name of a speaker control as the dispatcher derives it
SpeakerTargetName(target) == Upper(Replace(Replace(target, "Level", ""), "level", ""))

\* SEND_CMD, command.startswith("SOUND_")
SoundBranch(c, command) ==
    IF StartsWith(command, "SOUND_FIELD_")
    THEN LET value == Lower(Replace(command, "SOUND_FIELD_", ""))
         IN  IF validate_setting_value(c, "soundField", value)
             THEN Await("final", Call("setSoundSettings", <<"soundField", value>>), NoLoc)
             ELSE Ret("BAD_REQUEST")
    ELSE LET parts == SplitMax(command, "_", 2)
         IN  IF Len(parts) >= 3
             THEN LET target == Lower(parts[2])
                      value == Lower(parts[3])
                  IN  IF validate_setting_value(c, target, value)
                      THEN Await("final", Call("setSoundSettings", <<target, value>>), NoLoc)
                      ELSE Ret("BAD_REQUEST")
             ELSE Ret("OK")

\* SEND_CMD, command.startswith("SPEAKER_")
SpeakerBranch(c, command) ==
    IF ~(EndsWith(command, "_UP") \/ EndsWith(command, "_DOWN")) THEN Ret("BAD_REQUEST")
    ELSE IF SpeakerControlsRaises(c) THEN Ret("SERVER_ERROR")
    ELSE LET direction == IF EndsWith(command, "_UP") THEN "up" ELSE "down"
             speaker_name == RSplit1(From(command, 8), "_")[1]
             Matches(ctl) == SpeakerTargetName(ctl[1]) = speaker_name
             hit == FirstWhere(get_available_speaker_controls(c), Matches)
         IN  IF hit = <<>> THEN Ret("BAD_REQUEST")
             ELSE LET target == hit[1][1]
                      current == get_current_value(c, target)
                  IN  IF current = Nothing THEN Ret("SERVER_ERROR")
                      ELSE Await("speaker_set",
                                 Call("setSpeakerSettings",
                                      <<target, NewLevel(direction, current[1], hit[1][5],
                                                         hit[1][3], hit[1][4])>>),
                                 NoLoc)

\* a ZONE branch that does not look the zone up in settings_cache.zones
ZoneBranchAnyZone(c, command) ==
    IF Len(command) <= 4 \/ ~IsDigit(SubSeq(command, 5, 5)) THEN Ret("BAD_REQUEST")
    ELSE LET zone == DigitValue(SubSeq(command, 5, 5))
             cmd_type == From(command, 6)
         IN  IF cmd_type = "VOLUME_UP"
                 THEN Await("final", Call("setAudioVolume", <<ZoneUri(zone), "+1">>), NoLoc)
             ELSE IF cmd_type = "VOLUME_DOWN"
                 THEN Await("final", Call("setAudioVolume", <<ZoneUri(zone), "-1">>), NoLoc)
             ELSE Ret("BAD_REQUEST")

\* SEND_CMD, command.startswith("ZONE")
ZoneBranch(c, command) ==
    IF Len(command) <= 4 \/ ~IsDigit(SubSeq(command, 5, 5)) THEN Ret("BAD_REQUEST")
    ELSE LET zone == DigitValue(SubSeq(command, 5, 5))
             cmd_type == From(command, 6)
         IN  IF ~InSeq(zone, c.zones) THEN Ret("BAD_REQUEST")
             ELSE IF cmd_type = "VOLUME_UP"
                 THEN Await("final", Call("setAudioVolume", <<ZoneUri(zone), "+1">>), NoLoc)
             ELSE IF cmd_type = "VOLUME_DOWN"
                 THEN Await("final", Call("setAudioVolume", <<ZoneUri(zone), "-1">>), NoLoc)
             ELSE IF cmd_type = "MUTE_TOGGLE"
                 THEN Await("zone_mute_get", Call("getVolumeInformation", <<ZoneUri(zone)>>),
                            [NoLoc EXCEPT !.zone = zone])
             ELSE IF cmd_type = "ACTIVATE"
                 THEN Await("final", Call("setActiveTerminal", <<ZoneUri(zone), "active">>), NoLoc)
             ELSE IF cmd_type = "DEACTIVATE"
                 THEN Await("final", Call("setActiveTerminal", <<ZoneUri(zone), "inactive">>), NoLoc)
             ELSE Ret("BAD_REQUEST")

\* a handler without the value_map of the HDMI output values
HdmiValueUnmapped(value) == value

\* value_map.get(value, value) of the HDMI output values
HdmiValueMap(value) ==
    CASE value = "a" -> "hdmi_A"
      [] value = "b" -> "hdim_B"
      [] value = "ab" -> "hdmi_AB"
      [] value = "off" -> "off"
      [] OTHER -> value

\* SEND_CMD, command.startswith("SYSTEM_")
SystemBranch(c, command) ==
    LET Validated(target, value) ==
            IF validate_setting_value(c, target, value)
            THEN Await("final", Call("setSoundSettings", <<target, value>>), NoLoc)
            ELSE Ret("BAD_REQUEST")
    IN  IF StartsWith(command, "SYSTEM_DIMMER_")
        THEN Validated("dimmer", Lower(Replace(command, "SYSTEM_DIMMER_", "")))
        ELSE IF StartsWith(command, "SYSTEM_HDMI_OUTPUT_")
        THEN Validated("hdmiOutput", HdmiValueMap(Lower(Replace(command, "SYSTEM_HDMI_OUTPUT_", ""))))
        ELSE Ret("BAD_REQUEST")

\* SEND_CMD, command.startswith("INPUT_")
InputBranch(srcs, command) ==
    LET uri == get_input_uri_from_command(command, srcs)
    IN  IF uri # Nothing /\ uri[1] # ""
        THEN Await("final", Call("setPlayContent", <<"", uri[1]>>), NoLoc)
        ELSE Ret("BAD_REQUEST")

\* the power status sent and the entity state written after it
PowerCall(status, new_state) ==
    Await("power", Call("setPowerStatus", <<status>>), [NoLoc EXCEPT !.new_state = new_state])

PowerToggle(current_state) ==
    IF current_state = "OFF" THEN PowerCall("active", "ON") ELSE PowerCall("standby", "OFF")

\* params.get("repeat", 1)
RepeatParam(repeat) == IF repeat = Nothing THEN 1 ELSE repeat[1]

\* a handler that sends one set_volume whatever repeat says
VolumeLoopOnce(delta, repeat) ==
    Await("volume", Call("setAudioVolume", <<"", delta>>),
          [NoLoc EXCEPT !.remaining = 0, !.delta = delta])

\* for _ in range(repeat): await device.set_volume(delta)
VolumeLoop(delta, repeat) ==
    IF repeat <= 0 THEN Ret("OK")
    ELSE Await("volume", Call("setAudioVolume", <<"", delta>>),
               [NoLoc EXCEPT !.remaining = repeat - 1, !.delta = delta])

\* cmd_id == SEND_CMD with params.get("command") = command
SendCmd(c, srcs, current_state, command, repeat) ==
    IF command = "" THEN Ret("BAD_REQUEST")
    ELSE IF command = "POWER_ON" THEN PowerCall("active", "ON")
    ELSE IF command = "POWER_OFF" THEN PowerCall("standby", "OFF")
    ELSE IF command = "POWER_TOGGLE" THEN PowerToggle(current_state)
    ELSE IF command = "VOLUME_UP" THEN VolumeLoop("+1", RepeatParam(repeat))
    ELSE IF command = "VOLUME_DOWN" THEN VolumeLoop("-1", RepeatParam(repeat))
    ELSE IF command = "MUTE_ON" THEN Await("final", Call("setAudioMute", <<"", "on">>), NoLoc)
    ELSE IF command = "MUTE_OFF" THEN Await("final", Call("setAudioMute", <<"", "off">>), NoLoc)
    ELSE IF command = "MUTE_TOGGLE" THEN Await("mute_get", Call("getVolumeInformation", <<"">>), NoLoc)
    ELSE IF command = "REFRESH_SETTINGS" THEN Await("refresh_sound", Call("getSoundSettings", <<"">>), NoLoc)
    ELSE IF StartsWith(command, "SOUND_") THEN SoundBranch(c, command)
    ELSE IF StartsWith(command, "SPEAKER_") THEN SpeakerBranch(c, command)
    ELSE IF StartsWith(command, "ZONE") THEN ZoneBranch(c, command)
    ELSE IF StartsWith(command, "SYSTEM_") THEN SystemBranch(c, command)
    ELSE IF StartsWith(command, "INPUT_") THEN InputBranch(srcs, command)
    ELSE Ret("BAD_REQUEST")

\* cmd_handler up to its first await; i = [cmd_id, command, repeat], repeat an Optional
Entry(c, srcs, current_state, i) ==
    IF i.cmd_id = "on" THEN PowerCall("active", "ON")
    ELSE IF i.cmd_id = "off" THEN PowerCall("standby", "OFF")
    ELSE IF i.cmd_id = "toggle" THEN PowerToggle(current_state)
    ELSE IF i.cmd_id = "send_cmd" THEN SendCmd(c, srcs, current_state, i.command, i.repeat)
    ELSE Ret("NOT_IMPLEMENTED")

(***************************************************************************)
(* State.  One device, its registry entries in driver.py (device_sources,  *)
(* device_settings_caches, the configured entity) and the tasks running    *)
(* cmd_handler for it.  A task suspends at every RPC call it awaits.       *)
(***************************************************************************)
Tasks == {1, 2}

\* the last value datetime.now() may take
MaxClock == 2

VARIABLES
    devCfg,           \* device: the configuration it currently reports
    devLevel,         \* device: speaker target -> level
    cache,            \* DeviceSettingsCache: sound_settings, speaker_settings, zones, last_refresh
    clock,            \* datetime.now()
    sources,          \* device_sources[entity_id]
    simple_commands,  \* the entity's advertised command list
    button_mapping,   \* the entity's button mapping
    ui_pages,         \* the entity's UI pages
    entityState,      \* the entity's STATE attribute
    pc,               \* task -> idle, the continuation awaiting an RPC call, or done
    inp,              \* task -> the cmd_id and params of the dispatch
    loc,              \* task -> the handler's locals
    calls,            \* task -> the RPC calls issued by the dispatch, in order
    outcome,          \* task -> the returned status code
    pre,              \* task -> the cache when the task's refresh() was called, and when it returned
    seen,             \* task -> the cache the handler read at entry while a refresh was in flight, and whose
    setup,            \* the setup of the device: its position, whether the registry holds the device,
                      \* and the zone probes of its refresh()
    validation,       \* the last call of validate_setting_value outside a dispatch: its arguments
                      \* and its result (Optional)
    discovery,        \* a call of discover_all_sources: its position, the two replies and its list
    client,           \* a SonyAudioDevice instance: _session, _device_info, and whether it is new
    clientOp,         \* the last operation on the instance: its reply and what it did (Optional)
    devPower,         \* device: the power status it reports (active, standby)
    poll,             \* poll_device_state: its position, the status it read (Optional), and
                      \* whether its last iteration failed
    controls,         \* the last call of get_available_speaker_controls on its own: whether it
                      \* raised, and the list it returned (Optional)
    registry,         \* two devices: entity id -> the cache, sources, entity state and client
                      \* driver.py holds for it
    dispatched        \* two devices: the entity id and the input of the last dispatch (Optional)

vars == <<devCfg, devLevel, cache, clock, sources, simple_commands, button_mapping, ui_pages, entityState,
          pc, inp, loc, calls, outcome, pre, seen, setup, validation, discovery, client, clientOp,
          devPower, poll, controls, registry, dispatched>>

devVars == <<devCfg, devLevel>>
\* what the layers below the dispatcher record when called on their own
clientVars == <<client, clientOp>>
pollVars == <<devPower, poll>>
standaloneVars == <<controls, registry, dispatched>>
libVars == <<validation, discovery, clientVars, pollVars, standaloneVars>>
registryVars == <<sources, simple_commands, button_mapping, ui_pages, setup, libVars>>

NoInput == [cmd_id |-> "", command |-> "", repeat |-> Nothing]
\* params = {"command": command}, without "repeat"
SendCommand(command) == [cmd_id |-> "send_cmd", command |-> command, repeat |-> Nothing]

\* the cache content refresh() stores when every call succeeds and `zones` answer
Snapshot(k, lv, zones, now) ==
    [sound_settings |-> DeviceSound(k), speaker_settings |-> DeviceSpeaker(k, lv),
     zones |-> zones, last_refresh |-> now]

\* the zone lists _discover_zones can return for the device zones zs
ZoneLists(zs) ==
    {<<1>>} \cup (IF 2 \in zs THEN {<<1, 2>>} ELSE {})
            \cup (IF 3 \in zs THEN {<<1, 3>>} ELSE {})
            \cup (IF {2, 3} \subseteq zs THEN {<<1, 2, 3>>} ELSE {})

RefreshPcs == {"refresh_sound", "refresh_speaker", "refresh_zone"}

\* the pending call of a suspended task is the last one it issued
Pending(t) == calls[t][Len(calls[t])]
Resolve(t, r, res) == [calls[t] EXCEPT ![Len(calls[t])] = [@ EXCEPT !.r = r, !.res = res]]

\* the tasks whose refresh() is suspended at one of its RPC calls
Refreshing == {t \in Tasks : pc[t] \in RefreshPcs}

\* last_refresh of a cache on which no refresh() has completed (None)
NeverRefreshed == 0

\* DeviceSettingsCache.__init__
NewCache ==
    [sound_settings |-> <<>>, speaker_settings |-> <<>>, zones |-> <<>>, last_refresh |-> NeverRefreshed]

\* no setup has run for the device
NoSetup == [pc |-> "none", registered |-> FALSE, zone |-> 0, zones |-> <<>>, probes |-> <<>>]

\* setup has completed: the registry holds the device, its cache and its sources, and
\* the entity is available and configured
SetupDone == [pc |-> "done", registered |-> TRUE, zone |-> 0, zones |-> <<>>, probes |-> <<>>]

(***************************************************************************)
(* Initial state: setup has completed (handle_user_data_response / main):  *)
(* the cache was refreshed once, the sources were discovered and the       *)
(* entity was created from both.                                           *)
(***************************************************************************)
InitRegistry ==
    /\ devCfg \in 1..NumConfigs
    /\ devLevel \in DeviceLevels
    /\ clock = 1
    /\ cache \in {Snapshot(devCfg, devLevel, zl, 1) : zl \in ZoneLists(DeviceZones(devCfg))}
    /\ sources \in SourceChoices
    /\ simple_commands = create_simple_commands(sources, cache)
    /\ button_mapping = create_button_mappings(sources)
    /\ ui_pages = create_ui_pages(sources, cache)
    /\ entityState \in {"UNKNOWN"}
    /\ setup = SetupDone

InitTasks ==
    /\ pc = [t \in Tasks |-> "idle"]
    /\ inp = [t \in Tasks |-> NoInput]
    /\ loc = [t \in Tasks |-> NoLoc]
    /\ calls = [t \in Tasks |-> <<>>]
    /\ outcome = [t \in Tasks |-> ""]
    /\ pre = [t \in Tasks |-> <<>>]
    /\ seen = [t \in Tasks |-> <<>>]

\* discover_all_sources has not been called; a reply is Nothing until it arrives and
\* when its call raised
NoDiscovery == [pc |-> "none", sources |-> <<>>, basic |-> Nothing, terminals |-> Nothing]

\* the specifications of one device hold no second device
NoRegistry == <<>>

InitStandalone ==
    /\ controls = Nothing
    /\ registry = NoRegistry
    /\ dispatched = Nothing

\* the polling task sleeps before its first iteration
NoPoll == [pc |-> "sleep", status |-> Nothing, failed |-> FALSE]

\* nothing has been called on its own, the device is in standby
InitLib ==
    /\ validation = Nothing
    /\ discovery = NoDiscovery
    /\ client = NewClient
    /\ clientOp = Nothing
    /\ devPower = "standby"
    /\ poll = NoPoll
    /\ InitStandalone

Init == InitRegistry /\ InitTasks /\ InitLib

(***************************************************************************)
(* Actions                                                                 *)
(***************************************************************************)
\* the handler returns `status`
Finish(t, status) ==
    /\ pc' = [pc EXCEPT ![t] = "done"]
    /\ outcome' = [outcome EXCEPT ![t] = status]

\* cmd_handler(entity, cmd_id, params) is called, which the integration API does for a
\* configured entity only, and runs to its first await
Dispatch(t, i) ==
    /\ pc[t] = "idle"
    /\ setup.pc = "done"
    /\ LET e == Entry(cache, sources, entityState, i)
       IN  /\ inp' = [inp EXCEPT ![t] = i]
           /\ seen' = [seen EXCEPT ![t] = IF Refreshing = {} THEN <<>>
                                          ELSE <<[cache |-> cache, during |-> Refreshing]>>]
           /\ pre' = [pre EXCEPT ![t] = IF e.kind = "call" /\ e.next = "refresh_sound"
                                        THEN <<[before |-> cache, after |-> <<>>]>> ELSE <<>>]
           /\ loc' = [loc EXCEPT ![t] = e.loc]
           /\ IF e.kind = "return"
              THEN /\ Finish(t, e.status)
                   /\ calls' = [calls EXCEPT ![t] = <<>>]
              ELSE /\ pc' = [pc EXCEPT ![t] = e.next]
                   /\ calls' = [calls EXCEPT ![t] = <<e.req>>]
                   /\ UNCHANGED outcome
    /\ UNCHANGED <<devVars, cache, clock, registryVars, entityState>>

\* a handler that reports a failed call as a rejected command
RpcFailBadRequest(t) ==
    /\ pc[t] \in {"final", "power", "volume", "mute_get", "zone_mute_get", "speaker_set",
                  "refresh_sound", "refresh_speaker"}
    /\ calls' = [calls EXCEPT ![t] = Resolve(t, "fail", "")]
    /\ pre' = [pre EXCEPT ![t] = IF pc[t] \in RefreshPcs
                                 THEN <<[@[1] EXCEPT !.after = <<cache>>]>> ELSE @]
    /\ Finish(t, "BAD_REQUEST")
    /\ UNCHANGED <<devVars, cache, clock, registryVars, entityState, inp, loc, seen>>

\* a handler without the except clauses: the exception reaches the caller
RpcFailEscapes(t) ==
    /\ pc[t] \in {"final", "power", "volume", "mute_get", "zone_mute_get", "speaker_set",
                  "refresh_sound", "refresh_speaker"}
    /\ calls' = [calls EXCEPT ![t] = Resolve(t, "fail", "")]
    /\ pre' = [pre EXCEPT ![t] = IF pc[t] \in RefreshPcs
                                 THEN <<[@[1] EXCEPT !.after = <<cache>>]>> ELSE @]
    /\ Finish(t, "raised")
    /\ UNCHANGED <<devVars, cache, clock, registryVars, entityState, inp, loc, seen>>

\* a handler that writes the entity's state before it awaits set_power_status
RpcFailWritesState(t) ==
    /\ pc[t] \in {"final", "power", "volume", "mute_get", "zone_mute_get", "speaker_set",
                  "refresh_sound", "refresh_speaker"}
    /\ calls' = [calls EXCEPT ![t] = Resolve(t, "fail", "")]
    /\ pre' = [pre EXCEPT ![t] = IF pc[t] \in RefreshPcs
                                 THEN <<[@[1] EXCEPT !.after = <<cache>>]>> ELSE @]
    /\ entityState' = IF pc[t] = "power" THEN loc[t].new_state ELSE entityState
    /\ Finish(t, "SERVER_ERROR")
    /\ UNCHANGED <<devVars, cache, clock, registryVars, inp, loc, seen>>

\* an awaited RPC call raises (SonyApiError, aiohttp.ClientError, timeout): the
\* exception leaves refresh() and is caught by cmd_handler's except clauses
RpcFail(t) ==
    /\ pc[t] \in {"final", "power", "volume", "mute_get", "zone_mute_get", "speaker_set",
                  "refresh_sound", "refresh_speaker"}
    /\ calls' = [calls EXCEPT ![t] = Resolve(t, "fail", "")]
    /\ pre' = [pre EXCEPT ![t] = IF pc[t] \in RefreshPcs
                                 THEN <<[@[1] EXCEPT !.after = <<cache>>]>> ELSE @]
    /\ Finish(t, "SERVER_ERROR")
    /\ UNCHANGED <<devVars, cache, clock, registryVars, entityState, inp, loc, seen>>

\* the last call of a single-call command succeeds: fall through to return OK
FinalDone(t) ==
    /\ pc[t] = "final"
    /\ calls' = [calls EXCEPT ![t] = Resolve(t, "ok", "")]
    /\ Finish(t, "OK")
    /\ UNCHANGED <<devVars, cache, clock, registryVars, entityState, inp, loc, pre, seen>>

\* set_power_status succeeded: the device has the status sent; update_attributes(STATE),
\* return OK
PowerDone(t) ==
    /\ pc[t] = "power"
    /\ devPower' = Pending(t).a[1]
    /\ calls' = [calls EXCEPT ![t] = Resolve(t, "ok", "")]
    /\ entityState' = loc[t].new_state
    /\ Finish(t, "OK")
    /\ UNCHANGED <<devVars, cache, clock, sources, simple_commands, button_mapping, ui_pages, setup,
                   validation, discovery, clientVars, poll, standaloneVars, inp, loc, pre, seen>>

\* one set_volume of the repeat loop succeeded
VolumeDone(t) ==
    /\ pc[t] = "volume"
    /\ IF loc[t].remaining > 0
       THEN /\ calls' = [calls EXCEPT ![t] =
                           Append(Resolve(t, "ok", ""), Call("setAudioVolume", <<"", loc[t].delta>>))]
            /\ loc' = [loc EXCEPT ![t].remaining = @ - 1]
            /\ UNCHANGED <<pc, outcome>>
       ELSE /\ calls' = [calls EXCEPT ![t] = Resolve(t, "ok", "")]
            /\ Finish(t, "OK")
            /\ UNCHANGED loc
    /\ UNCHANGED <<devVars, cache, clock, registryVars, entityState, inp, pre, seen>>

\* what getVolumeInformation can answer: an empty list, or one entry with or without "mute"
VolumeInfos == {<<>>, <<[mute |-> "on"]>>, <<[mute |-> "off"]>>, <<[volume |-> 10]>>}

\* mute = (current_mute == "off"), as the string set_mute sends
MuteArg(current_mute) == IF current_mute = "off" THEN "on" ELSE "off"

\* MUTE_TOGGLE: get_volume_info() answered
MuteGetDone(t) ==
    /\ pc[t] = "mute_get"
    /\ \E vol_info \in VolumeInfos :
          IF Len(vol_info) > 0
          THEN LET current_mute == Get(vol_info[1], "mute", "off")
               IN  /\ calls' = [calls EXCEPT ![t] =
                                  Append(Resolve(t, "ok", current_mute),
                                         Call("setAudioMute", <<"", MuteArg(current_mute)>>))]
                   /\ pc' = [pc EXCEPT ![t] = "final"]
                   /\ UNCHANGED outcome
          ELSE /\ calls' = [calls EXCEPT ![t] = Resolve(t, "ok", "empty")]
               /\ Finish(t, "OK")
    /\ UNCHANGED <<devVars, cache, clock, registryVars, entityState, inp, loc, pre, seen>>

\* ZONE<N>_MUTE_TOGGLE: get_zone_volume(zone) answered (result[0] if result else {})
ZoneMuteGetDone(t) ==
    /\ pc[t] = "zone_mute_get"
    /\ \E result \in VolumeInfos :
          LET vol_info == IF Len(result) > 0 THEN result[1] ELSE [none |-> ""]
              current_mute == Get(vol_info, "mute", "off")
          IN  /\ calls' = [calls EXCEPT ![t] =
                             Append(Resolve(t, "ok", current_mute),
                                    Call("setAudioMute", <<ZoneUri(loc[t].zone), MuteArg(current_mute)>>))]
              /\ pc' = [pc EXCEPT ![t] = "final"]
    /\ UNCHANGED <<devVars, cache, clock, registryVars, entityState, inp, loc, outcome, pre, seen>>

\* a dispatcher that returns OK right after set_speaker_level, without the refresh
SpeakerSetDoneNoRefresh(t) ==
    /\ pc[t] = "speaker_set"
    /\ \E level \in LevelValues(Pending(t).a[1]) :
          devLevel' = [devLevel EXCEPT ![Pending(t).a[1]] = level]
    /\ calls' = [calls EXCEPT ![t] = Resolve(t, "ok", "")]
    /\ Finish(t, "OK")
    /\ UNCHANGED <<devCfg, cache, clock, registryVars, entityState, inp, loc, pre, seen>>

\* SPEAKER_<NAME>_UP/DOWN: set_speaker_level succeeded (the device may clamp or round
\* the level its own way); settings_cache.refresh() is called and issues its first call
SpeakerSetDone(t) ==
    /\ pc[t] = "speaker_set"
    /\ \E level \in LevelValues(Pending(t).a[1]) :
          devLevel' = [devLevel EXCEPT ![Pending(t).a[1]] = level]
    /\ calls' = [calls EXCEPT ![t] = Append(Resolve(t, "ok", ""), Call("getSoundSettings", <<"">>))]
    /\ pre' = [pre EXCEPT ![t] = <<[before |-> cache, after |-> <<>>]>>]
    /\ pc' = [pc EXCEPT ![t] = "refresh_sound"]
    /\ UNCHANGED <<devCfg, cache, clock, registryVars, entityState, inp, loc, outcome, seen>>

\* refresh(): get_sound_settings answered; self.sound_settings is assigned
RefreshSoundDone(t) ==
    /\ pc[t] = "refresh_sound"
    /\ cache' = [cache EXCEPT !.sound_settings = DeviceSound(devCfg)]
    /\ calls' = [calls EXCEPT ![t] = Append(Resolve(t, "ok", ""), Call("getSpeakerSettings", <<"">>))]
    /\ pc' = [pc EXCEPT ![t] = "refresh_speaker"]
    /\ UNCHANGED <<devVars, clock, registryVars, entityState, inp, loc, outcome, pre, seen>>

\* a _discover_zones that appends the probed zones to the zones the cache holds
RefreshSpeakerDoneKeepsZones(t) ==
    /\ pc[t] = "refresh_speaker"
    /\ cache' = [cache EXCEPT !.speaker_settings = DeviceSpeaker(devCfg, devLevel)]
    /\ calls' = [calls EXCEPT ![t] =
                    Append(Resolve(t, "ok", ""), Call("getVolumeInformation", <<ZoneUri(2)>>))]
    /\ loc' = [loc EXCEPT ![t].zone = 2, ![t].zones = cache.zones]
    /\ pc' = [pc EXCEPT ![t] = "refresh_zone"]
    /\ UNCHANGED <<devVars, clock, registryVars, entityState, inp, outcome, pre, seen>>

\* refresh(): get_speaker_settings answered; self.speaker_settings is assigned and
\* _discover_zones starts with zones = [1] and the probe of zone 2
RefreshSpeakerDone(t) ==
    /\ pc[t] = "refresh_speaker"
    /\ cache' = [cache EXCEPT !.speaker_settings = DeviceSpeaker(devCfg, devLevel)]
    /\ calls' = [calls EXCEPT ![t] =
                    Append(Resolve(t, "ok", ""), Call("getVolumeInformation", <<ZoneUri(2)>>))]
    /\ loc' = [loc EXCEPT ![t].zone = 2, ![t].zones = <<1>>]
    /\ pc' = [pc EXCEPT ![t] = "refresh_zone"]
    /\ UNCHANGED <<devVars, clock, registryVars, entityState, inp, outcome, pre, seen>>

\* a _discover_zones that takes every answered probe, an empty answer too, for a zone
ProbeZoneDoneAnswered(t) ==
    /\ pc[t] = "refresh_zone"
    /\ \E answer \in (IF loc[t].zone \in DeviceZones(devCfg) THEN {"ok", "fail"} ELSE {"empty", "fail"}) :
          LET zones == IF answer # "fail" THEN Append(loc[t].zones, loc[t].zone) ELSE loc[t].zones
              r == IF answer = "fail" THEN "fail" ELSE "ok"
          IN  IF loc[t].zone = 2
              THEN /\ calls' = [calls EXCEPT ![t] =
                                  Append(Resolve(t, r, answer), Call("getVolumeInformation", <<ZoneUri(3)>>))]
                   /\ loc' = [loc EXCEPT ![t].zone = 3, ![t].zones = zones]
                   /\ UNCHANGED <<pc, outcome, cache, clock, pre>>
              ELSE /\ clock < MaxClock
                   /\ calls' = [calls EXCEPT ![t] = Resolve(t, r, answer)]
                   /\ loc' = [loc EXCEPT ![t].zones = zones]
                   /\ clock' = clock + 1
                   /\ cache' = [cache EXCEPT !.zones = zones, !.last_refresh = clock + 1]
                   /\ pre' = [pre EXCEPT ![t] = <<[@[1] EXCEPT !.after = <<cache'>>]>>]
                   /\ Finish(t, "OK")
    /\ UNCHANGED <<devVars, registryVars, entityState, inp, seen>>

\* _discover_zones: the probe of zone 2 or 3 answered or raised (a raise, and an empty
\* answer, mean the zone is absent).  After zone 3, refresh() assigns self.zones and
\* self.last_refresh and returns; REFRESH_SETTINGS and SPEAKER_ then return OK.
ProbeZoneDone(t) ==
    /\ pc[t] = "refresh_zone"
    /\ \E answer \in (IF loc[t].zone \in DeviceZones(devCfg) THEN {"ok", "fail"} ELSE {"empty", "fail"}) :
          LET zones == IF answer = "ok" THEN Append(loc[t].zones, loc[t].zone) ELSE loc[t].zones
              r == IF answer = "fail" THEN "fail" ELSE "ok"
          IN  IF loc[t].zone = 2
              THEN /\ calls' = [calls EXCEPT ![t] =
                                  Append(Resolve(t, r, answer), Call("getVolumeInformation", <<ZoneUri(3)>>))]
                   /\ loc' = [loc EXCEPT ![t].zone = 3, ![t].zones = zones]
                   /\ UNCHANGED <<pc, outcome, cache, clock, pre>>
              ELSE /\ clock < MaxClock
                   /\ calls' = [calls EXCEPT ![t] = Resolve(t, r, answer)]
                   /\ loc' = [loc EXCEPT ![t].zones = zones]
                   /\ clock' = clock + 1
                   /\ cache' = [cache EXCEPT !.zones = zones, !.last_refresh = clock + 1]
                   /\ pre' = [pre EXCEPT ![t] = <<[@[1] EXCEPT !.after = <<cache'>>]>>]
                   /\ Finish(t, "OK")
    /\ UNCHANGED <<devVars, registryVars, entityState, inp, seen>>

\* the caller has the status; the task can take the next command
Return(t) ==
    /\ pc[t] = "done"
    /\ pc' = [pc EXCEPT ![t] = "idle"]
    /\ inp' = [inp EXCEPT ![t] = NoInput]
    /\ loc' = [loc EXCEPT ![t] = NoLoc]
    /\ calls' = [calls EXCEPT ![t] = <<>>]
    /\ outcome' = [outcome EXCEPT ![t] = ""]
    /\ pre' = [pre EXCEPT ![t] = <<>>]
    /\ seen' = [seen EXCEPT ![t] = <<>>]
    /\ UNCHANGED <<devVars, cache, clock, registryVars, entityState>>

\* the device's settings change (firmware, physical remote, another app)
DeviceChange ==
    /\ \E k \in 1..NumConfigs, lv \in DeviceLevels :
          /\ <<k, lv>> # <<devCfg, devLevel>>
          /\ devCfg' = k
          /\ devLevel' = lv
    /\ UNCHANGED <<cache, clock, registryVars, entityState, pc, inp, loc, calls, outcome, pre, seen>>

(***************************************************************************)
(* Specifications                                                          *)
(***************************************************************************)
Range(seq) == {seq[i] : i \in 1..Len(seq)}

\* every command some compiled namespace of the model advertises
EmittedCommands ==
    UNION {Range(create_simple_commands(srcs, Snapshot(k, lv, zl, 1))) :
              srcs \in SourceChoices, k \in 1..NumConfigs,
              lv \in {CHOOSE x \in DeviceLevels : TRUE}, zl \in ZoneLists({2, 3})}

\* command strings no namespace advertises: malformed, unknown target, value, zone or input
OtherCommands ==
    {"", "FOO", "SOUND_X", "SOUND_FIELD_BOGUS", "SOUND_DIMMER_BOGUS",
     "SYSTEM_DIMMER_OFF", "SYSTEM_DIMMER_BOGUS", "SYSTEM_HDMI_OUTPUT_A", "SYSTEM_HDMI_OUTPUT_B",
     "SYSTEM_FOO", "ZONE1_ACTIVATE", "ZONE1_DEACTIVATE", "ZONE4_VOLUME_UP", "ZONEX_UP", "ZONE",
     "ZONE2_FOO", "SPEAKER_CENTER", "SPEAKER_REAR_UP", "INPUT_GAME"}

\* the largest repeat parameter dispatched
MaxRepeat == 2

\* power, volume and mute: the commands every namespace holds, and the entity commands
BasicInputs ==
    {SendCommand(command) : command \in Range(BaseCommands) \cup {""}}
    \cup {[cmd_id |-> "send_cmd", command |-> command, repeat |-> Some(n)] :
             command \in {"VOLUME_UP", "VOLUME_DOWN"}, n \in 0..MaxRepeat}
    \cup {[cmd_id |-> id, command |-> "", repeat |-> Nothing] : id \in {"on", "off", "toggle", "other"}}

\* the commands that depend on discovered capabilities, advertised or not
CapabilityInputs ==
    {SendCommand(command) : command \in (EmittedCommands \ Range(BaseCommands)) \cup OtherCommands}

\* the continuations the capability commands reach
CapabilityStep(t) ==
    \/ RpcFail(t)
    \/ FinalDone(t)
    \/ ZoneMuteGetDone(t)
    \/ SpeakerSetDone(t)
    \/ RefreshSoundDone(t)
    \/ RefreshSpeakerDone(t)
    \/ ProbeZoneDone(t)
    \/ Return(t)

\* capability commands dispatched one after the other, as the caller is expected to
Next ==
    \/ \E i \in CapabilityInputs : Dispatch(1, i)
    \/ CapabilityStep(1)
    \/ DeviceChange

Spec == Init /\ [][Next]_vars

\* the continuations the power, volume and mute commands reach
BasicStep(t) ==
    \/ RpcFail(t)
    \/ FinalDone(t)
    \/ PowerDone(t)
    \/ VolumeDone(t)
    \/ MuteGetDone(t)
    \/ Return(t)

NextBasic ==
    \/ \E i \in BasicInputs : Dispatch(1, i)
    \/ BasicStep(1)

SpecBasic == Init /\ [][NextBasic]_vars

\* every command and entity command, dispatched one after the other to a device whose
\* configuration stays as it was at setup
NextAll ==
    \/ \E i \in BasicInputs \cup CapabilityInputs : Dispatch(1, i)
    \/ CapabilityStep(1)
    \/ PowerDone(1)
    \/ VolumeDone(1)
    \/ MuteGetDone(1)

SpecAll == Init /\ [][NextAll]_vars

\* REFRESH_SETTINGS in task 1 while task 2 dispatches commands that read the cache.
\* The device has changed since setup: the cache holds the snapshot of any
\* configuration and levels, the device reports its own.
ReaderInputs ==
    {SendCommand(command) : command \in {"SPEAKER_CENTER_UP", "ZONE2_VOLUME_UP"}}

InitConc ==
    /\ devCfg \in 1..NumConfigs
    /\ devLevel \in DeviceLevels
    /\ clock = 1
    /\ \E k \in 1..NumConfigs, lv \in DeviceLevels :
          cache \in {Snapshot(k, lv, zl, 1) : zl \in ZoneLists(DeviceZones(k))}
    /\ sources \in SourceChoices
    /\ simple_commands = create_simple_commands(sources, cache)
    /\ button_mapping = create_button_mappings(sources)
    /\ ui_pages = create_ui_pages(sources, cache)
    /\ entityState = "UNKNOWN"
    /\ setup = SetupDone
    /\ InitTasks
    /\ InitLib

RefreshStep(t) ==
    \/ RpcFail(t)
    \/ RefreshSoundDone(t)
    \/ RefreshSpeakerDone(t)
    \/ ProbeZoneDone(t)

NextConc ==
    \/ Dispatch(1, SendCommand("REFRESH_SETTINGS"))
    \/ RefreshStep(1)
    \/ \E i \in ReaderInputs : Dispatch(2, i)
    \/ RefreshStep(2)
    \/ FinalDone(2)
    \/ SpeakerSetDone(2)
    \/ Return(2)

SpecConc == InitConc /\ [][NextConc]_vars

(***************************************************************************)
(* Operations on one SonyAudioDevice instance                              *)
(***************************************************************************)
\* replies to a query: a result, an error, both, or a failed request
QueryReplies ==
    {[kind |-> "json", data |-> [result |-> r]] : r \in {<<"x">>, <<"y">>, <<>>}}
    \cup {[kind |-> "json", data |-> [error |-> e]] : e \in {<<>>, <<"12">>, <<"12", "illegal">>}}
    \cup {[kind |-> "json", data |-> [result |-> <<"x">>, error |-> <<"40", "busy">>]],
          [kind |-> "transport"], [kind |-> "timeout"]}

\* replies to a command: the result array is empty
CommandReplies ==
    {[kind |-> "json", data |-> [result |-> <<>>]],
     [kind |-> "json", data |-> [error |-> <<"12", "illegal">>]],
     [kind |-> "transport"], [kind |-> "timeout"]}

ClientUnchanged ==
    UNCHANGED <<devVars, cache, clock, sources, simple_commands, button_mapping, ui_pages, entityState,
                pc, inp, loc, calls, outcome, pre, seen, setup, validation, discovery, pollVars, standaloneVars>>

\* the instance after an operation, and the record of the operation
Operated(op, method, reply, r) ==
    /\ client' = r.client
    /\ clientOp' = Some([op |-> op, method |-> method, reply |-> reply, before |-> client,
                         sent |-> r.sent, raised |-> r.raised, error |-> r.error, value |-> r.value])
    /\ ClientUnchanged

\* SonyAudioDevice(ip_address)
CreateClient ==
    /\ client # NewClient
    /\ client' = NewClient
    /\ clientOp' = Nothing
    /\ ClientUnchanged

\* device.connect(), which setup and main call on a new instance
Connect ==
    /\ client.new
    /\ \E reply \in QueryReplies :
          Operated("connect", "getSystemInformation", reply, connect(client, reply))

GetDeviceInfo ==
    \E reply \in QueryReplies :
        Operated("get_device_info", "getSystemInformation", reply, get_device_info(client, reply))

GetVolumeInfo ==
    \E reply \in QueryReplies :
        Operated("get_volume_info", "getVolumeInformation", reply, get_volume_info(client, reply))

SetPowerStatus ==
    \E reply \in CommandReplies :
        Operated("set_power_status", "setPowerStatus", reply, set_power_status(client, reply))

\* close(): an open session is closed
Close ==
    /\ client' = [client EXCEPT !.session = IF @ = "open" THEN "closed" ELSE @, !.new = FALSE]
    /\ clientOp' = Some([op |-> "close", method |-> "", reply |-> [kind |-> "none"], before |-> client,
                         sent |-> 0, raised |-> "", error |-> Nothing, value |-> Nothing])
    /\ ClientUnchanged

NextClient ==
    \/ CreateClient
    \/ Connect
    \/ GetDeviceInfo
    \/ GetVolumeInfo
    \/ SetPowerStatus
    \/ Close

SpecClient == Init /\ [][NextClient]_vars

(***************************************************************************)
(* remote_entity.py discover_all_sources                                   *)
(***************************************************************************)
\* getSourceList replies: a device lists each of its inputs once
SourceListReplies ==
    {<<>>,
     <<[source |-> "extInput:tv", title |-> "TV"]>>,
     <<[source |-> "extInput:tv", title |-> "TV"], [source |-> "extInput:hdmi?port=1", title |-> "HDMI1"]>>,
     <<[source |-> "extInput:hdmi?port=1", title |-> "HDMI1"], [title |-> "untitled"]>>}

\* terminals of getCurrentExternalTerminalsStatus: inputs, a zone output, one without uri
Terminals ==
    {[uri |-> "extInput:tv", title |-> "TV terminal"],
     [uri |-> "extInput:game", title |-> "GAME"],
     [uri |-> "extOutput:zone?zone=2", title |-> "Zone 2"],
     [title |-> "no uri"]}

\* the longest terminal list a reply holds
MaxTerminals == 2

TerminalReplies == UNION {[1..n -> Terminals] : n \in 0..MaxTerminals}

\* the source entry built from a terminal
TerminalSource(terminal) ==
    [source |-> terminal.uri, title |-> Get(terminal, "title", ""), meta |-> Get(terminal, "meta", ""),
     iconUrl |-> Get(terminal, "iconUrl", ""), isPlayable |-> TRUE, isBrowsable |-> FALSE]

SourceUri(source) == IF "source" \in DOMAIN source THEN Some(source.source) ELSE Nothing

\* for terminal in input_terminals: append unless the URI is in existing_uris
RECURSIVE AddTerminals(_, _)
AddTerminals(srcs, terminals) ==
    IF terminals = <<>> THEN srcs
    ELSE LET terminal == Head(terminals)
             isInput == StartsWith(Get(terminal, "uri", ""), "extInput:")
             existing == \E n \in 1..Len(srcs) : SourceUri(srcs[n]) = Some(terminal.uri)
         IN  IF isInput /\ ~existing
             THEN AddTerminals(Append(srcs, TerminalSource(terminal)), Tail(terminals))
             ELSE AddTerminals(srcs, Tail(terminals))

\* a merge without existing_uris: every input terminal is appended
RECURSIVE AddTerminalsUnchecked(_, _)
AddTerminalsUnchecked(srcs, terminals) ==
    IF terminals = <<>> THEN srcs
    ELSE IF StartsWith(Get(Head(terminals), "uri", ""), "extInput:")
         THEN AddTerminalsUnchecked(Append(srcs, TerminalSource(Head(terminals))), Tail(terminals))
         ELSE AddTerminalsUnchecked(srcs, Tail(terminals))

DiscoveryUnchanged ==
    UNCHANGED <<devVars, cache, clock, sources, simple_commands, button_mapping, ui_pages, entityState,
                pc, inp, loc, calls, outcome, pre, seen, setup, validation, clientVars, pollVars, standaloneVars>>

\* discover_all_sources(device) is called: sources = [], get_source_list is awaited
DiscoverStart ==
    /\ discovery.pc \in {"none", "done"}
    /\ discovery' = [NoDiscovery EXCEPT !.pc = "source_list"]
    /\ DiscoveryUnchanged

\* a discovery that appends every input terminal
TerminalsDoneUnchecked ==
    /\ discovery.pc = "terminals"
    /\ \E reply \in TerminalReplies :
          discovery' = [discovery EXCEPT !.pc = "done", !.terminals = Some(reply),
                                         !.sources = AddTerminalsUnchecked(@, reply)]
    /\ DiscoveryUnchanged

\* get_source_list answered: sources.extend(basic_sources)
SourceListDone ==
    /\ discovery.pc = "source_list"
    /\ \E reply \in SourceListReplies :
          discovery' = [discovery EXCEPT !.pc = "terminals", !.basic = Some(reply),
                                         !.sources = @ \o reply]
    /\ DiscoveryUnchanged

\* get_source_list raised: the exception is logged
SourceListFail ==
    /\ discovery.pc = "source_list"
    /\ discovery' = [discovery EXCEPT !.pc = "terminals"]
    /\ DiscoveryUnchanged

\* get_external_terminals_status answered: the input terminals with new URIs are appended
TerminalsDone ==
    /\ discovery.pc = "terminals"
    /\ \E reply \in TerminalReplies :
          discovery' = [discovery EXCEPT !.pc = "done", !.terminals = Some(reply),
                                         !.sources = AddTerminals(@, reply)]
    /\ DiscoveryUnchanged

\* get_external_terminals_status raised: the exception is logged
TerminalsFail ==
    /\ discovery.pc = "terminals"
    /\ discovery' = [discovery EXCEPT !.pc = "done"]
    /\ DiscoveryUnchanged

NextDiscover ==
    \/ DiscoverStart
    \/ SourceListDone
    \/ SourceListFail
    \/ TerminalsDone
    \/ TerminalsFail

\* source discovery on the device after its setup
SpecDiscover == Init /\ [][NextDiscover]_vars

(***************************************************************************)
(* driver.py poll_device_state: the polling task of the device, running    *)
(* beside the dispatches.  An iteration sleeps, awaits get_power_status    *)
(* and, resumed with the status the device answered, updates the entity.   *)
(***************************************************************************)
\* remote.States.ON if status == "active" else remote.States.OFF
PollState(status) == IF status = "active" THEN "ON" ELSE "OFF"

PollUnchanged ==
    UNCHANGED <<devVars, cache, clock, sources, simple_commands, button_mapping, ui_pages, pc, inp, loc,
                calls, outcome, pre, seen, setup, validation, discovery, clientVars, devPower, standaloneVars>>

\* while entity_id in devices: the sleep is over and get_power_status is awaited; the
\* task ends when the registry does not hold the device
PollWake ==
    /\ poll.pc = "sleep"
    /\ poll' = [poll EXCEPT !.pc = IF setup.registered THEN "get" ELSE "ended"]
    /\ UNCHANGED entityState
    /\ PollUnchanged

\* the device answers get_power_status with its status at that moment
PollAnswered ==
    /\ poll.pc = "get"
    /\ poll' = [poll EXCEPT !.pc = "update", !.status = Some(devPower)]
    /\ UNCHANGED entityState
    /\ PollUnchanged

\* a polling task whose except clause leaves the loop
PollFailEnds ==
    /\ poll.pc = "get"
    /\ poll' = [poll EXCEPT !.pc = "ended", !.status = Nothing, !.failed = TRUE]
    /\ UNCHANGED entityState
    /\ PollUnchanged

\* get_power_status raises: except Exception logs, and the loop tests its condition again
PollFail ==
    /\ poll.pc = "get"
    /\ poll' = [poll EXCEPT !.pc = "sleep", !.status = Nothing, !.failed = TRUE]
    /\ UNCHANGED entityState
    /\ PollUnchanged

\* a polling task that never writes the attribute
PollUpdateSkipped ==
    /\ poll.pc = "update"
    /\ poll' = [poll EXCEPT !.pc = "sleep", !.failed = FALSE]
    /\ UNCHANGED entityState
    /\ PollUnchanged

\* the task resumes with the status: the configured entity's STATE is updated when it
\* differs from the state of that status
PollUpdate ==
    /\ poll.pc = "update"
    /\ LET new_state == PollState(poll.status[1])
       IN  entityState' = IF setup.pc = "done" /\ entityState # new_state
                          THEN new_state ELSE entityState
    /\ poll' = [poll EXCEPT !.pc = "sleep", !.failed = FALSE]
    /\ PollUnchanged

\* the power status changes at the device (physical remote, another app)
DevicePowerChange ==
    /\ devPower' = IF devPower = "active" THEN "standby" ELSE "active"
    /\ UNCHANGED <<devVars, cache, clock, sources, simple_commands, button_mapping, ui_pages, entityState,
                   pc, inp, loc, calls, outcome, pre, seen, setup, validation, discovery,
                   clientVars, poll, standaloneVars>>

\* the power commands and entity commands
PowerInputs ==
    {SendCommand(command) : command \in {"POWER_ON", "POWER_OFF", "POWER_TOGGLE"}}
    \cup {[cmd_id |-> id, command |-> "", repeat |-> Nothing] : id \in {"on", "off", "toggle"}}

\* setup has completed (the initial get_power_status set the state, or raised and left
\* it UNKNOWN) and the polling task has been created
InitPoll ==
    /\ devCfg = 1
    /\ devLevel = CHOOSE lv \in DeviceLevels : TRUE
    /\ clock = 1
    /\ cache = Snapshot(devCfg, devLevel, <<1>>, 1)
    /\ sources \in SourceChoices
    /\ simple_commands = create_simple_commands(sources, cache)
    /\ button_mapping = create_button_mappings(sources)
    /\ ui_pages = create_ui_pages(sources, cache)
    /\ entityState \in {"UNKNOWN", "ON", "OFF"}
    /\ setup = SetupDone
    /\ InitTasks
    /\ validation = Nothing
    /\ discovery = NoDiscovery
    /\ client = NewClient
    /\ clientOp = Nothing
    /\ devPower \in {"active", "standby"}
    /\ poll = NoPoll
    /\ InitStandalone

PollStep == PollWake \/ PollAnswered \/ PollUpdate

\* one polling iteration after the other beside one power command after the other; the
\* device is changed by the commands only
NextOverlap ==
    \/ PollWake
    \/ PollAnswered
    \/ PollFail
    \/ PollUpdate
    \/ \E i \in PowerInputs : Dispatch(1, i)
    \/ PowerDone(1)
    \/ RpcFail(1)
    \/ Return(1)

SpecOverlap == InitPoll /\ [][NextOverlap]_vars

\* the polling task beside the power commands of two tasks and the changes made at the
\* device; the event loop resumes the polling task whenever it can run
NextPoll ==
    \/ PollWake
    \/ PollAnswered
    \/ PollFail
    \/ PollUpdate
    \/ DevicePowerChange
    \/ \E t \in Tasks :
          \/ \E i \in PowerInputs : Dispatch(t, i)
          \/ PowerDone(t)
          \/ RpcFail(t)
          \/ Return(t)

SpecPoll == InitPoll /\ [][NextPoll]_vars /\ WF_vars(PollStep)

(***************************************************************************)
(* Two devices.  driver.py keeps one SonyAudioDevice, one source list and  *)
(* one DeviceSettingsCache per entity id, and the integration API one      *)
(* STATE per entity; cmd_handler reaches them through entity.id.  A        *)
(* record of `registry` holds them for one entity; `sent` is the last      *)
(* request issued through the entity's client.                             *)
(***************************************************************************)
Entities == {"sony_A", "sony_B"}

\* the configuration each of the two devices reports
DeviceConfig(id) == IF id = "sony_A" THEN 1 ELSE 2

\* a handler that reads and writes the first device's entries whatever the entity
EntityKeyFirst(id) == "sony_A"

\* the key of devices, device_settings_caches, device_sources and update_attributes
EntityKey(id) == id

\* the requests of a refresh() whose call number f raises (0: none raises)
RefreshCalls(f) ==
    IF f = 1 THEN <<"getSoundSettings">>
    ELSE IF f = 2 THEN <<"getSoundSettings", "getSpeakerSettings">>
    ELSE <<"getSoundSettings", "getSpeakerSettings", "getVolumeInformation", "getVolumeInformation">>

\* the cache c after a refresh() on a device of configuration k whose call number f raises
Refreshed(c, k, f, lv, zl, now) ==
    IF f = 1 THEN c
    ELSE IF f = 2 THEN [c EXCEPT !.sound_settings = DeviceSound(k)]
    ELSE Snapshot(k, lv, zl, now)

\* the entries d of an entity after cmd_handler, whose entry on them is e, ran to its
\* return, the call number f raising
Handled(d, e, k, f, lv, zl, now) ==
    LET r == IF f = 0 THEN 0 ELSE f - 1
    IN  IF e.kind = "return" THEN d
        ELSE IF e.next = "power"
            THEN [d EXCEPT !.client.sent = e.req.m,
                           !.state = IF f = 1 THEN @ ELSE e.loc.new_state]
        ELSE IF e.next = "refresh_sound"
            THEN [d EXCEPT !.client.sent = RefreshCalls(f)[Len(RefreshCalls(f))],
                           !.cache = Refreshed(@, k, f, lv, zl, now)]
        ELSE IF e.next = "speaker_set" /\ f # 1
            THEN [d EXCEPT !.client.sent = RefreshCalls(r)[Len(RefreshCalls(r))],
                           !.cache = Refreshed(@, k, r, lv, zl, now)]
        ELSE [d EXCEPT !.client.sent = e.req.m]

\* whether the handler's refresh() runs to its end
Refreshes(e, f) ==
    /\ e.kind = "call"
    /\ \/ e.next = "refresh_sound" /\ f \notin {1, 2}
       \/ e.next = "speaker_set" /\ f \notin {1, 2, 3}

\* the power commands, the two commands that refresh the cache and an unknown command
DeviceInputs ==
    {[cmd_id |-> "toggle", command |-> "", repeat |-> Nothing]}
    \cup {SendCommand(c) : c \in {"POWER_OFF", "REFRESH_SETTINGS", "SPEAKER_CENTER_UP", "FOO"}}

\* cmd_handler(entity, cmd_id, params) for the entity id, run to its return
DeviceDispatch(id, i) ==
    /\ LET d == registry[EntityKey(id)]
       IN  \E e \in {Entry(d.cache, d.sources, d.state, i)}, f \in 0..3 :
              LET done == Refreshes(e, f)
              IN  /\ done => clock < MaxClock
                  /\ \E lv \in (IF done THEN DeviceLevels ELSE {devLevel}),
                        zl \in (IF done THEN ZoneLists(DeviceZones(DeviceConfig(id))) ELSE {<<1>>}) :
                        registry' = [registry EXCEPT ![EntityKey(id)] =
                                       Handled(d, e, DeviceConfig(id), f, lv, zl, clock + 1)]
                  /\ clock' = IF done THEN clock + 1 ELSE clock
    /\ dispatched' = Some([id |-> id, i |-> i])
    /\ UNCHANGED <<devVars, cache, sources, simple_commands, button_mapping, ui_pages,
                   entityState, pc, inp, loc, calls, outcome, pre, seen, setup, validation,
                   discovery, clientVars, pollVars, controls>>

\* setup has completed for both devices, each in either power state
InitDevices ==
    /\ devCfg = 1
    /\ devLevel = CHOOSE lv \in DeviceLevels : TRUE
    /\ clock = 1
    /\ cache = NewCache
    /\ sources = <<>>
    /\ simple_commands = <<>>
    /\ button_mapping = <<>>
    /\ ui_pages = <<>>
    /\ entityState = "UNKNOWN"
    /\ setup = NoSetup
    /\ InitTasks
    /\ validation = Nothing
    /\ discovery = NoDiscovery
    /\ client = NewClient
    /\ clientOp = Nothing
    /\ devPower = "standby"
    /\ poll = NoPoll
    /\ controls = Nothing
    /\ \E st \in [Entities -> {"ON", "OFF"}], srcs \in SourceChoices :
          registry = [id \in Entities |->
                        [cache |-> Snapshot(DeviceConfig(id), devLevel, <<1>>, 1), sources |-> srcs,
                         state |-> st[id], client |-> [session |-> "open", sent |-> ""]]]
    /\ dispatched = Nothing

NextDevices ==
    \E id \in Entities, i \in DeviceInputs : DeviceDispatch(id, i)

SpecDevices == InitDevices /\ [][NextDevices]_vars

\* get_available_speaker_controls() is called on the cache
GetAvailableSpeakerControls ==
    /\ controls = Nothing
    /\ controls' = IF SpeakerControlsRaises(cache)
                   THEN Some([raised |-> TRUE, value |-> <<>>])
                   ELSE Some([raised |-> FALSE, value |-> get_available_speaker_controls(cache)])
    /\ UNCHANGED <<devVars, cache, clock, sources, simple_commands, button_mapping, ui_pages,
                   entityState, pc, inp, loc, calls, outcome, pre, seen, setup, validation,
                   discovery, clientVars, pollVars, registry, dispatched>>

\* speaker settings a device can report: a level with its range, with a candidate that
\* holds no range or a part of it, without the candidate and isAvailable keys, with an
\* empty candidate list, an unavailable level and a setting that is no level
ControlSettings ==
    {LevelSetting("centerLevel", TRUE, 0, FullRange),
     LevelSetting("subwooferLevel", TRUE, 0, NoRange),
     LevelSetting("heightLevel", TRUE, 0, [min |-> -60]),
     [target |-> "rearLevel", type |-> "doubleNumberTarget", currentValue |-> 0],
     [target |-> "frontLevel", type |-> "doubleNumberTarget", isAvailable |-> TRUE,
      currentValue |-> 0, candidate |-> <<>>],
     LevelSetting("surroundLevel", FALSE, 0, FullRange),
     SpeakerSelectionSetting}

\* the longest speaker settings list of these devices
MaxSettings == 2

ControlSpeakerLists ==
    UNION {[1..n -> ControlSettings] : n \in 0..MaxSettings}

\* a refresh has stored any of these lists; the entity is not created yet
InitControls ==
    /\ devCfg = 1
    /\ devLevel = CHOOSE lv \in DeviceLevels : TRUE
    /\ clock = 1
    /\ \E speaker \in ControlSpeakerLists :
          cache = [sound_settings |-> <<>>, speaker_settings |-> speaker,
                   zones |-> <<1>>, last_refresh |-> 1]
    /\ sources \in SourceChoices
    /\ simple_commands = <<>>
    /\ button_mapping = <<>>
    /\ ui_pages = <<>>
    /\ entityState = "UNKNOWN"
    /\ setup = [NoSetup EXCEPT !.pc = "entity"]
    /\ InitTasks
    /\ InitLib

NextControls == GetAvailableSpeakerControls

SpecControls == InitControls /\ [][NextControls]_vars

\* validate_setting_value(target, value) is called on the cache
ValidateSettingValue(target, value) ==
    /\ validation' = Some([target |-> target, value |-> value,
                           result |-> validate_setting_value(cache, target, value)])
    /\ UNCHANGED <<devVars, cache, clock, sources, simple_commands, button_mapping, ui_pages, entityState,
                   pc, inp, loc, calls, outcome, pre, seen, setup, discovery, clientVars, pollVars, standaloneVars>>

\* settings lists a device can report: a target twice in one list, a setting without
\* candidates, and in the speaker list a target the sound list can hold as well
ValidateSoundLists ==
    {<<>>, <<DimmerSetting>>, <<SoundFieldSetting(FALSE), DimmerSetting>>,
     <<[target |-> "dimmer", type |-> "enumTarget"], DimmerSetting>>,
     <<DimmerSetting, [DimmerSetting EXCEPT !.candidate = <<EnumCandidate("dark", TRUE)>>]>>}

ValidateSpeakerLists ==
    {<<>>, <<LevelSetting("centerLevel", TRUE, 0, FullRange)>>,
     <<[DimmerSetting EXCEPT !.candidate = <<EnumCandidate("dark", TRUE)>>],
       LevelSetting("centerLevel", TRUE, 0, FullRange)>>}

ValidateTargets == {"dimmer", "soundField", "centerLevel", "hdmiOutput"}
ValidateValues == {"bright", "off", "dark", "2chStereo", ""}

\* setup has completed on a device that reported any of these lists
InitValidate ==
    /\ devCfg = 1
    /\ devLevel = CHOOSE lv \in DeviceLevels : TRUE
    /\ clock = 1
    /\ \E sound \in ValidateSoundLists, speaker \in ValidateSpeakerLists :
          cache = [sound_settings |-> sound, speaker_settings |-> speaker,
                   zones |-> <<1>>, last_refresh |-> 1]
    /\ sources \in SourceChoices
    /\ simple_commands = create_simple_commands(sources, cache)
    /\ button_mapping = create_button_mappings(sources)
    /\ ui_pages = create_ui_pages(sources, cache)
    /\ entityState = "UNKNOWN"
    /\ setup = SetupDone
    /\ InitTasks
    /\ InitLib

NextValidate ==
    \E target \in ValidateTargets, value \in ValidateValues : ValidateSettingValue(target, value)

SpecValidate == InitValidate /\ [][NextValidate]_vars

\* the values an hdmiOutput setting can offer: the device's, and the short forms
HdmiOutputValues == <<"hdmi_A", "hdim_B", "hdmi_AB", "off", "hdmi_B", "a">>

\* the hdmiOutput setting of a device that offers the values at the positions `offered`
HdmiOutputOffering(offered) ==
    LET Offered(candidate) ==
            \E n \in offered : HdmiOutputValues[n] = candidate.value
    IN  [target |-> "hdmiOutput", type |-> "enumTarget", isAvailable |-> TRUE, currentValue |-> "off",
         candidate |-> SelectSeq([n \in 1..Len(HdmiOutputValues) |->
                                     EnumCandidate(HdmiOutputValues[n], TRUE)], Offered)]

SystemHdmiInputs ==
    {SendCommand("SYSTEM_HDMI_OUTPUT_" \o x) : x \in {"A", "B", "AB", "OFF", "HDMI_A", "C"}}

\* setup has completed on a device that offers any of the HDMI output values
InitSystem ==
    /\ devCfg = 1
    /\ devLevel = CHOOSE lv \in DeviceLevels : TRUE
    /\ clock = 1
    /\ \E offered \in SUBSET (1..Len(HdmiOutputValues)) :
          cache = [sound_settings |-> <<DimmerSetting, HdmiOutputOffering(offered)>>,
                   speaker_settings |-> <<>>, zones |-> <<1>>, last_refresh |-> 1]
    /\ sources \in SourceChoices
    /\ simple_commands = create_simple_commands(sources, cache)
    /\ button_mapping = create_button_mappings(sources)
    /\ ui_pages = create_ui_pages(sources, cache)
    /\ entityState = "UNKNOWN"
    /\ setup = SetupDone
    /\ InitTasks
    /\ InitLib

\* the SYSTEM_HDMI_OUTPUT_ commands dispatched one after the other
NextSystem ==
    \/ \E i \in SystemHdmiInputs : Dispatch(1, i)
    \/ RpcFail(1)
    \/ FinalDone(1)
    \/ Return(1)

SpecSystem == InitSystem /\ [][NextSystem]_vars

(***************************************************************************)
(* Setup of the device (handle_user_data_response, and main for a saved    *)
(* device): a new cache is refreshed, the entity is created, the device    *)
(* and its cache are stored in the registry, the sources are discovered    *)
(* and the entity becomes available and configured.                        *)
(***************************************************************************)
\* a setup that stores the device and its cache before the cache is refreshed
SetupStartRegistered ==
    /\ setup.pc \in {"none", "failed"}
    /\ cache' = NewCache
    /\ setup' = [NoSetup EXCEPT !.pc = "sound", !.registered = TRUE]
    /\ UNCHANGED <<devVars, clock, sources, simple_commands, button_mapping, ui_pages, entityState,
                   pc, inp, loc, calls, outcome, pre, seen, libVars>>

\* DeviceSettingsCache(device) is created and refresh() issues its first call; a failed
\* setup can be run again
SetupStart ==
    /\ setup.pc \in {"none", "failed"}
    /\ cache' = NewCache
    /\ setup' = [NoSetup EXCEPT !.pc = "sound"]
    /\ UNCHANGED <<devVars, clock, sources, simple_commands, button_mapping, ui_pages, entityState,
                   pc, inp, loc, calls, outcome, pre, seen, libVars>>

\* refresh(): get_sound_settings answered
SetupSoundDone ==
    /\ setup.pc = "sound"
    /\ cache' = [cache EXCEPT !.sound_settings = DeviceSound(devCfg)]
    /\ setup' = [setup EXCEPT !.pc = "speaker"]
    /\ UNCHANGED <<devVars, clock, sources, simple_commands, button_mapping, ui_pages, entityState,
                   pc, inp, loc, calls, outcome, pre, seen, libVars>>

\* refresh(): get_speaker_settings answered; _discover_zones starts with zones = [1]
SetupSpeakerDone ==
    /\ setup.pc = "speaker"
    /\ cache' = [cache EXCEPT !.speaker_settings = DeviceSpeaker(devCfg, devLevel)]
    /\ setup' = [setup EXCEPT !.pc = "zone", !.zone = 2, !.zones = <<1>>]
    /\ UNCHANGED <<devVars, clock, sources, simple_commands, button_mapping, ui_pages, entityState,
                   pc, inp, loc, calls, outcome, pre, seen, libVars>>

\* _discover_zones: the probe of zone 2 or 3 answered or raised; after zone 3 refresh()
\* assigns self.zones and self.last_refresh and returns
SetupProbeDone ==
    /\ setup.pc = "zone"
    /\ \E answer \in (IF setup.zone \in DeviceZones(devCfg) THEN {"ok", "fail"} ELSE {"empty", "fail"}) :
          LET zones == IF answer = "ok" THEN Append(setup.zones, setup.zone) ELSE setup.zones
          IN  IF setup.zone = 2
              THEN /\ setup' = [setup EXCEPT !.zone = 3, !.zones = zones, !.probes = Append(@, answer)]
                   /\ UNCHANGED <<cache, clock>>
              ELSE /\ clock < MaxClock
                   /\ clock' = clock + 1
                   /\ cache' = [cache EXCEPT !.zones = zones, !.last_refresh = clock + 1]
                   /\ setup' = [setup EXCEPT !.pc = "entity", !.zones = zones, !.probes = Append(@, answer)]
    /\ UNCHANGED <<devVars, sources, simple_commands, button_mapping, ui_pages, entityState,
                   pc, inp, loc, calls, outcome, pre, seen, libVars>>

\* get_sound_settings or get_speaker_settings raises: refresh() re-raises, setup ends in
\* its except clause and stores nothing
SetupRefreshFail ==
    /\ setup.pc \in {"sound", "speaker"}
    /\ setup' = [setup EXCEPT !.pc = "failed"]
    /\ UNCHANGED <<devVars, cache, clock, sources, simple_commands, button_mapping, ui_pages, entityState,
                   pc, inp, loc, calls, outcome, pre, seen, libVars>>

\* create_remote_entity returned the entity with its compiled command list; the device
\* and the cache are stored in devices and device_settings_caches
SetupEntityDone ==
    /\ setup.pc = "entity"
    /\ \E discovered \in SourceChoices :
          /\ simple_commands' = create_simple_commands(discovered, cache)
          /\ button_mapping' = create_button_mappings(discovered)
          /\ ui_pages' = create_ui_pages(discovered, cache)
    /\ setup' = [setup EXCEPT !.pc = "sources", !.registered = TRUE]
    /\ UNCHANGED <<devVars, cache, clock, sources, entityState,
                   pc, inp, loc, calls, outcome, pre, seen, libVars>>

\* discover_all_sources returned: device_sources is stored and the entity is added to
\* the available and the configured entities
SetupSourcesDone ==
    /\ setup.pc = "sources"
    /\ sources' \in SourceChoices
    /\ setup' = [setup EXCEPT !.pc = "done"]
    /\ UNCHANGED <<devVars, cache, clock, simple_commands, button_mapping, ui_pages, entityState,
                   pc, inp, loc, calls, outcome, pre, seen, libVars>>

\* the driver starts without the device; after its setup REFRESH_SETTINGS is dispatched
InitSetup ==
    /\ devCfg \in 1..NumConfigs
    /\ devLevel \in DeviceLevels
    /\ clock = 0
    /\ cache = NewCache
    /\ sources = <<>>
    /\ simple_commands = <<>>
    /\ button_mapping = <<>>
    /\ ui_pages = <<>>
    /\ entityState = "UNKNOWN"
    /\ setup = NoSetup
    /\ InitTasks
    /\ InitLib

NextSetup ==
    \/ SetupStart
    \/ SetupSoundDone
    \/ SetupSpeakerDone
    \/ SetupProbeDone
    \/ SetupRefreshFail
    \/ SetupEntityDone
    \/ SetupSourcesDone
    \/ Dispatch(1, SendCommand("REFRESH_SETTINGS"))
    \/ RefreshStep(1)
    \/ Return(1)

SpecSetup == InitSetup /\ [][NextSetup]_vars

\* create_remote_entity compiles the entity's command list from the discovered sources
\* and the refreshed cache
CreateEntity ==
    /\ simple_commands = <<>>
    /\ simple_commands' = create_simple_commands(sources, cache)
    /\ button_mapping' = create_button_mappings(sources)
    /\ ui_pages' = create_ui_pages(sources, cache)
    /\ UNCHANGED <<devVars, cache, clock, sources, entityState, pc, inp, loc, calls, outcome, pre, seen, setup, libVars>>

\* the cache after the refresh of a device that reports no sound and no speaker settings
NoSettingsCache(zones) ==
    [sound_settings |-> <<>>, speaker_settings |-> <<>>, zones |-> zones, last_refresh |-> 1]

\* setup before the entity is created: any discovered source list, any refreshed cache
InitCompile ==
    /\ devCfg \in 1..NumConfigs
    /\ devLevel = CHOOSE lv \in DeviceLevels : TRUE
    /\ clock = 1
    /\ cache \in {Snapshot(devCfg, devLevel, zl, 1) : zl \in ZoneLists({2, 3})}
                 \cup {NoSettingsCache(zl) : zl \in ZoneLists({2, 3})}
    /\ sources \in SourceLists
    /\ simple_commands = <<>>
    /\ button_mapping = <<>>
    /\ ui_pages = <<>>
    /\ entityState = "UNKNOWN"
    /\ setup = [NoSetup EXCEPT !.pc = "entity"]
    /\ InitTasks
    /\ InitLib

NextCompile == CreateEntity

SpecCompile == InitCompile /\ [][NextCompile]_vars

\* setup with any discovered source list; the INPUT_ commands of the advertised
\* namespace are dispatched
InitInput ==
    /\ devCfg = 1
    /\ devLevel = CHOOSE lv \in DeviceLevels : TRUE
    /\ clock = 1
    /\ cache = Snapshot(devCfg, devLevel, <<1>>, 1)
    /\ sources \in SourceLists
    /\ simple_commands = create_simple_commands(sources, cache)
    /\ button_mapping = create_button_mappings(sources)
    /\ ui_pages = create_ui_pages(sources, cache)
    /\ entityState = "UNKNOWN"
    /\ setup = SetupDone
    /\ InitTasks
    /\ InitLib

NextInput ==
    \/ \E n \in 1..Len(simple_commands) :
          /\ StartsWith(simple_commands[n], "INPUT_")
          /\ Dispatch(1, SendCommand(simple_commands[n]))
    \/ FinalDone(1)
    \/ RpcFail(1)
    \/ Return(1)

SpecInput == InitInput /\ [][NextInput]_vars

(***************************************************************************)
(* Properties                                                              *)
(***************************************************************************)
\* task t runs, or has just returned from, a SEND_CMD dispatch of a command with `prefix`
Dispatched(t, prefix) ==
    pc[t] # "idle" /\ inp[t].cmd_id = "send_cmd" /\ StartsWith(inp[t].command, prefix)

\* task t's refresh() has returned or raised
RefreshReturned(t) == pc[t] = "done" /\ pre[t] # <<>> /\ pre[t][1].after # <<>>

\* the first call of task t's dispatch is method m with the arguments a
FirstCallIs(t, m, a) == calls[t] # <<>> /\ calls[t][1].m = m /\ calls[t][1].a = a

\* the cache still is what the handler of task 1 read at entry (only RefreshSoundDone,
\* after the handler's second call, writes it when the commands run one at a time)
CacheAsAtEntry == pc[1] # "idle" /\ Len(calls[1]) <= 2

Triple(c) == <<c.sound_settings, c.speaker_settings, c.zones>>

Clamp(x, lo, hi) == Max2(lo, Min2(x, hi))

\* C1: when refresh() raised, the cache after it equals the cache before it
\* (sound settings, speaker settings, zones and timestamp)
C1_FailedRefreshKeepsCache ==
    \A t \in Tasks :
        (RefreshReturned(t) /\ outcome[t] = "SERVER_ERROR")
            => pre[t][1].after[1] = pre[t][1].before

\* C2: a command dispatched in task 2 while task 1's refresh() is suspended reads the
\* triple (sound settings, speaker settings, zones) as it was before that refresh or as
\* it is after it, never a mix
C2_ReaderSeesWholeSnapshot ==
    (/\ seen[2] # <<>>
     /\ 1 \in seen[2][1].during
     /\ RefreshReturned(1))
        => Triple(seen[2][1].cache) \in {Triple(pre[1][1].before), Triple(pre[1][1].after[1])}

\* C3: a SOUND_ or SYSTEM_ dispatch returns OK only after exactly one setSoundSettings
\* call whose (target, value) the cache validates, and a dispatch that issued no call
\* returned BAD_REQUEST
C3_SoundSystemValidated ==
    \A t \in Tasks :
        (pc[t] = "done" /\ (Dispatched(t, "SOUND_") \/ Dispatched(t, "SYSTEM_")))
            => /\ outcome[t] = "OK" =>
                    /\ Len(calls[t]) = 1
                    /\ calls[t][1].m = "setSoundSettings"
                    /\ validate_setting_value(cache, calls[t][1].a[1], calls[t][1].a[2])
               /\ calls[t] = <<>> => outcome[t] = "BAD_REQUEST"

\* C4: dispatching the INPUT_ command compiled for a source of the list selects exactly
\* that source's URI
C4_InputRoundTrip ==
    \A n \in 1..Len(sources) :
        LET emitted == InputCommand(sources[n])
        IN  (emitted # <<>> /\ pc[1] = "done" /\ inp[1] = SendCommand(emitted[1]))
                => FirstCallIs(1, "setPlayContent", <<"", sources[n].source>>)

\* C5: dispatching a SOUND_FIELD_<VALUE> or SOUND_<TARGET>_<VALUE> command compiled from
\* the cache issues setSoundSettings with the (target, value) it was compiled from
C5_SoundRoundTrip ==
    CacheAsAtEntry =>
        /\ \A i \in 1..Len(get_available_sound_field_values(cache)) :
              LET value == get_available_sound_field_values(cache)[i][1]
              IN  inp[1] = SendCommand(SoundFieldCommand(value))
                      => FirstCallIs(1, "setSoundSettings", <<"soundField", value>>)
        /\ \A i \in 1..Len(get_available_boolean_settings(cache)) :
              LET setting == get_available_boolean_settings(cache)[i]
              IN  \A j \in 1..Len(setting[3]) :
                      inp[1] = SendCommand(SoundSettingCommand(setting[1], setting[3][j]))
                          => FirstCallIs(1, "setSoundSettings", <<setting[1], setting[3][j]>>)

\* C6: ZONE1_ACTIVATE and ZONE1_DEACTIVATE return BAD_REQUEST without any call
C6_MainZoneRejected ==
    \A t \in Tasks :
        (pc[t] # "idle" /\ inp[t] \in {SendCommand("ZONE1_ACTIVATE"), SendCommand("ZONE1_DEACTIVATE")})
            => pc[t] = "done" /\ outcome[t] = "BAD_REQUEST" /\ calls[t] = <<>>

\* C7: the level SPEAKER_<NAME>_UP / _DOWN sends is clamp(current +/- step, min, max)
\* of the control in the cache, hence within [min, max]
C7_LevelClamped ==
    (pc[1] = "speaker_set" /\ ~SpeakerControlsRaises(cache)) =>
        LET target == Pending(1).a[1]
            IsTarget(ctl) == ctl[1] = target
            ctl == FirstWhere(get_available_speaker_controls(cache), IsTarget)[1]
            current == get_current_value(cache, target)[1]
            wanted == IF EndsWith(inp[1].command, "_UP") THEN current + ctl[5] ELSE current - ctl[5]
        IN  /\ Pending(1).a[2] = Clamp(wanted, ctl[3], ctl[4])
            /\ ctl[3] <= Pending(1).a[2]
            /\ Pending(1).a[2] <= ctl[4]

\* C8: once a SPEAKER_ dispatch's setSpeakerSettings call has succeeded, refresh() has
\* been started, and the dispatch returns OK only after that refresh returned normally
\* and replaced the snapshot the cache held before the write
C8_SpeakerRefreshBeforeOk ==
    \A t \in Tasks :
        Dispatched(t, "SPEAKER_") =>
            /\ (calls[t] # <<>> /\ calls[t][1].r = "ok") =>
                    /\ calls[t][1].m = "setSpeakerSettings"
                    /\ Len(calls[t]) >= 2
                    /\ calls[t][2].m = "getSoundSettings"
                    /\ pre[t] # <<>>
            /\ (pc[t] = "done" /\ outcome[t] = "OK") =>
                    /\ Len(calls[t]) = 5
                    /\ calls[t][1].r = "ok"
                    /\ calls[t][2].r = "ok"
                    /\ calls[t][3].m = "getSpeakerSettings" /\ calls[t][3].r = "ok"
                    /\ calls[t][4].m = "getVolumeInformation" /\ calls[t][5].m = "getVolumeInformation"
                    /\ RefreshReturned(t)
                    /\ pre[t][1].after[1] = cache
                    /\ cache.last_refresh > pre[t][1].before.last_refresh

\* a SPEAKER_ dispatch has returned OK after the write and the whole refresh
C8_Witness ==
    /\ pc[1] = "done" /\ outcome[1] = "OK"
    /\ Dispatched(1, "SPEAKER_")
    /\ Len(calls[1]) = 5
    /\ cache.last_refresh = 2

\* C9: dispatching the SPEAKER_<NAME>_UP / _DOWN command compiled for an available
\* speaker control of the cache issues setSpeakerSettings for that control's target
C9_SpeakerRoundTrip ==
    (CacheAsAtEntry /\ ~SpeakerControlsRaises(cache)) =>
        \A i \in 1..Len(get_available_speaker_controls(cache)) :
            LET target == get_available_speaker_controls(cache)[i][1]
            IN  \A j \in 1..2 :
                    inp[1] = SendCommand(SpeakerCommands(target)[j])
                        => /\ calls[1] # <<>>
                           /\ calls[1][1].m = "setSpeakerSettings"
                           /\ calls[1][1].a[1] = target

\* the command of the second control of the cache has been dispatched and its call
\* names that control's target
C9_Witness ==
    /\ pc[1] = "speaker_set"
    /\ inp[1] = SendCommand("SPEAKER_SUBWOOFER_DOWN")
    /\ get_available_speaker_controls(cache)[2][1] = "subwooferLevel"
    /\ Pending(1).a[1] = "subwooferLevel"

\* C10: after a refresh that returned normally (REFRESH_SETTINGS or a speaker write) the
\* advertised command list is the one compiled from the sources and the cache
C10_NamespaceFollowsRefresh ==
    \A t \in Tasks :
        (RefreshReturned(t) /\ outcome[t] = "OK")
            => simple_commands = create_simple_commands(sources, cache)

\* C11: a SEND_CMD dispatch that issued a call was given a command of the namespace
\* compiled from the sources and the cache the handler read
C11_CallsOnlyForNamespace ==
    (CacheAsAtEntry /\ inp[1].cmd_id = "send_cmd" /\ calls[1] # <<>>)
        => inp[1].command \in Range(create_simple_commands(sources, cache))

\* C12: a dispatch that returned BAD_REQUEST issued no RPC call
C12_BadRequestSendsNothing ==
    \A t \in Tasks :
        (pc[t] = "done" /\ outcome[t] = "BAD_REQUEST") => calls[t] = <<>>

\* a command for a zone the cache does not hold has been rejected
C12_Witness ==
    /\ pc[1] = "done" /\ outcome[1] = "BAD_REQUEST"
    /\ inp[1] = SendCommand("ZONE4_VOLUME_UP")
    /\ calls[1] = <<>>

\* call k of task t's dispatch is a zone probe of refresh()
IsProbe(t, k) == pre[t] # <<>> /\ calls[t][k].m = "getVolumeInformation"

\* C13: a dispatch returns OK, BAD_REQUEST, NOT_IMPLEMENTED or SERVER_ERROR and nothing
\* else; once a call of the command other than a zone probe has failed, the dispatch
\* has returned SERVER_ERROR
C13_OutcomesAndDeviceError ==
    \A t \in Tasks :
        /\ pc[t] = "done" => outcome[t] \in {"OK", "BAD_REQUEST", "NOT_IMPLEMENTED", "SERVER_ERROR"}
        /\ \A k \in 1..Len(calls[t]) :
              (calls[t][k].r = "fail" /\ ~IsProbe(t, k))
                  => pc[t] = "done" /\ outcome[t] = "SERVER_ERROR"

\* the second set_volume of a repeated VOLUME_UP failed and the dispatch returned
\* SERVER_ERROR
C13_Witness ==
    /\ pc[1] = "done" /\ outcome[1] = "SERVER_ERROR"
    /\ inp[1].command = "VOLUME_UP"
    /\ Len(calls[1]) = 2
    /\ calls[1][2].r = "fail"

\* C15: a ZONE command whose fifth character is not a digit, or is a digit outside
\* the cache's zones, returns BAD_REQUEST without a call; a ZONE command that issued a
\* call names a digit the cache's zones hold
C15_ZoneParsed ==
    \A t \in Tasks :
        Dispatched(t, "ZONE") =>
            LET command == inp[t].command
                digit == Len(command) >= 5 /\ Contains(Digits, SubSeq(command, 5, 5))
                known == digit /\ \E n \in 1..Len(cache.zones) :
                                      DigitStr(cache.zones[n]) = SubSeq(command, 5, 5)
            IN  /\ ~known => pc[t] = "done" /\ outcome[t] = "BAD_REQUEST" /\ calls[t] = <<>>
                /\ calls[t] # <<>> => known

\* ZONE4_VOLUME_UP has been rejected with the zones 1 and 2 in the cache
C15_Witness ==
    /\ cache.zones = <<1, 2>>
    /\ inp[1] = SendCommand("ZONE4_VOLUME_UP")
    /\ pc[1] = "done" /\ outcome[1] = "BAD_REQUEST"

\* the compiled command list holds `command`
Advertised(command) == \E n \in 1..Len(simple_commands) : simple_commands[n] = command

IsInputCommand(command) == StartsWith(command, "INPUT_")

\* the zone and input rules of the compiled list: ACTIVATE / DEACTIVATE exactly for the
\* cached zones above 1, volume and mute commands only for cached zones, as many INPUT_
\* entries as sources
ZoneAndInputRules ==
    /\ \A n \in 1..4 :
          LET held == \E k \in 1..Len(cache.zones) : cache.zones[k] = n
              zone == "ZONE" \o DigitStr(n)
          IN  /\ Advertised(zone \o "_ACTIVATE") <=> (held /\ n > 1)
              /\ Advertised(zone \o "_DEACTIVATE") <=> (held /\ n > 1)
              /\ Advertised(zone \o "_VOLUME_UP") => held
              /\ Advertised(zone \o "_VOLUME_DOWN") => held
              /\ Advertised(zone \o "_MUTE_TOGGLE") => held
    /\ Len(SelectSeq(simple_commands, IsInputCommand)) = Len(sources)

\* the sources extInput:tv and extInput:hdmi?port=2, the zones 1 and 2, no settings
EndToEndCase ==
    /\ [n \in 1..Len(sources) |-> sources[n].source] = <<"extInput:tv", "extInput:hdmi?port=2">>
    /\ cache.zones = <<1, 2>>
    /\ cache.sound_settings = <<>>
    /\ cache.speaker_settings = <<>>

EndToEndCommands ==
    Range(BaseCommands)
    \cup {"INPUT_TV", "INPUT_HDMI2", "ZONE2_VOLUME_UP", "ZONE2_VOLUME_DOWN", "ZONE2_MUTE_TOGGLE",
          "ZONE2_ACTIVATE", "ZONE2_DEACTIVATE"}

\* C16 as stated: the zone and input rules hold of the compiled list, and for the
\* sources tv and hdmi?port=2 with the zones 1 and 2 the list holds exactly INPUT_TV,
\* INPUT_HDMI2, the five ZONE2_ commands and the base commands
C16_NamespaceAsStated ==
    simple_commands # <<>> =>
        /\ ZoneAndInputRules
        /\ EndToEndCase => Range(simple_commands) = EndToEndCommands

\* C16 amended: the zone and input rules hold of the compiled list, and for the sources
\* tv and hdmi?port=2 with the zones 1 and 2 the list holds exactly INPUT_TV,
\* INPUT_HDMI2, the five ZONE2_ commands, the base commands, the volume and mute
\* commands of zone 1 and REFRESH_SETTINGS
C16_NamespaceContent ==
    simple_commands # <<>> =>
        /\ ZoneAndInputRules
        /\ EndToEndCase =>
              Range(simple_commands) =
                  EndToEndCommands
                  \cup {"ZONE1_VOLUME_UP", "ZONE1_VOLUME_DOWN", "ZONE1_MUTE_TOGGLE", "REFRESH_SETTINGS"}

\* the list has been compiled for the sources tv and hdmi?port=2 and the zones 1 and 2
C16_Witness ==
    /\ EndToEndCase
    /\ Advertised("ZONE2_ACTIVATE")
    /\ Advertised("INPUT_HDMI2")

\* C17: the compiled command list holds no command string twice
C17_NoDuplicateCommands ==
    \A m, n \in 1..Len(simple_commands) :
        m # n => simple_commands[m] # simple_commands[n]

\* C18: at most one refresh() of the device's cache is suspended at one of its RPC
\* calls at any time
C18_OneRefreshInFlight == Cardinality(Refreshing) <= 1

\* C19: whenever the registry holds the device's cache, a refresh() has completed on
\* that cache: its refresh timestamp is set
C19_RegisteredCacheRefreshed ==
    setup.registered => cache.last_refresh # NeverRefreshed

\* the cache is stored in the registry after its first refresh, and a dispatch reads it
C19_Witness ==
    /\ setup.registered
    /\ cache.last_refresh = 1
    /\ pc[1] = "refresh_sound"

\* the zone probes of the refresh() of task t, in order
ProbeAnswers(t) ==
    LET probes == SelectSeq(calls[t], LAMBDA c : c.m = "getVolumeInformation")
    IN  [k \in 1..Len(probes) |-> probes[k].res]

\* sound settings, speaker settings and zones of a cache
Content(c) == <<c.sound_settings, c.speaker_settings, c.zones>>

\* C20: the refresh() that follows the one of the setup, on a device that reports the
\* same settings and answers the zone probes as it did then, leaves the content of the
\* cache as the first did; only the timestamp differs
C20_RefreshIdempotent ==
    (/\ pc[1] = "done" /\ outcome[1] = "OK" /\ pre[1] # <<>>
     /\ pre[1][1].before.last_refresh = 1
     /\ ProbeAnswers(1) = setup.probes)
        => /\ Content(pre[1][1].after[1]) = Content(pre[1][1].before)
           /\ Content(cache) = Content(pre[1][1].before)

\* the second refresh() has returned after zone probes that answered as in the first,
\* one of them with a zone
C20_Witness ==
    /\ pc[1] = "done" /\ outcome[1] = "OK" /\ pre[1] # <<>>
    /\ ProbeAnswers(1) = setup.probes
    /\ Len(cache.zones) > 1
    /\ cache.last_refresh = 2

\* C21 as stated: a MUTE_TOGGLE dispatch that returned OK has issued one
\* getVolumeInformation call and then one setAudioMute call with the negation of the
\* mute state that call reported
C21_MuteToggleFresh ==
    \A t \in Tasks :
        (/\ pc[t] = "done" /\ outcome[t] = "OK"
         /\ inp[t].cmd_id = "send_cmd" /\ inp[t].command = "MUTE_TOGGLE")
            => /\ Len(calls[t]) = 2
               /\ calls[t][1].m = "getVolumeInformation"
               /\ calls[t][2].m = "setAudioMute"
               /\ \/ calls[t][1].res = "on" /\ calls[t][2].a[2] = "off"
                  \/ calls[t][1].res = "off" /\ calls[t][2].a[2] = "on"

\* C30: a VOLUME_UP (VOLUME_DOWN) dispatch with repeat = k, or k = 1 without repeat,
\* issues only set-volume calls with the delta +1 (-1), never more than k, exactly k
\* when it returns OK; a failed call is the last one and the outcome is SERVER_ERROR
C30_VolumeRepeat ==
    \A t \in Tasks :
        (inp[t].cmd_id = "send_cmd" /\ inp[t].command \in {"VOLUME_UP", "VOLUME_DOWN"}) =>
            LET k == IF inp[t].repeat = <<>> THEN 1 ELSE inp[t].repeat[1]
                delta == IF inp[t].command = "VOLUME_UP" THEN "+1" ELSE "-1"
            IN  /\ Len(calls[t]) <= k
                /\ \A n \in 1..Len(calls[t]) :
                      /\ calls[t][n].m = "setAudioVolume"
                      /\ calls[t][n].a = <<"", delta>>
                      /\ calls[t][n].r = "fail" =>
                            n = Len(calls[t]) /\ pc[t] = "done" /\ outcome[t] = "SERVER_ERROR"
                /\ (pc[t] = "done" /\ outcome[t] = "OK") =>
                      /\ Len(calls[t]) = k
                      /\ \A n \in 1..k : calls[t][n].r = "ok"
                /\ pc[t] = "done" => outcome[t] \in {"OK", "SERVER_ERROR"}

\* VOLUME_DOWN with repeat = 2 returned OK after two calls
C30_Witness ==
    /\ inp[1].command = "VOLUME_DOWN" /\ inp[1].repeat = <<2>>
    /\ pc[1] = "done" /\ outcome[1] = "OK"
    /\ Len(calls[1]) = 2

\* the device value the fixed table gives SYSTEM_HDMI_OUTPUT_A, _B, _AB and _OFF
HdmiTable ==
    [SYSTEM_HDMI_OUTPUT_A |-> "hdmi_A", SYSTEM_HDMI_OUTPUT_B |-> "hdim_B",
     SYSTEM_HDMI_OUTPUT_AB |-> "hdmi_AB", SYSTEM_HDMI_OUTPUT_OFF |-> "off"]

\* the cached hdmiOutput setting offers `value`
HdmiOffered(value) ==
    \E n \in 1..Len(cache.sound_settings) :
        /\ cache.sound_settings[n].target = "hdmiOutput"
        /\ \E m \in 1..Len(cache.sound_settings[n].candidate) :
              cache.sound_settings[n].candidate[m].value = value

\* C28: SYSTEM_HDMI_OUTPUT_A, _B, _AB, _OFF stand for hdmi_A, hdim_B, hdmi_AB, off of
\* the target hdmiOutput: the dispatch sends exactly that value in one setSoundSettings
\* call when the cache offers it, and returns BAD_REQUEST without a call when not
C28_HdmiOutputTable ==
    (pc[1] # "idle" /\ inp[1].command \in DOMAIN HdmiTable) =>
        LET value == HdmiTable[inp[1].command]
        IN  IF HdmiOffered(value)
            THEN /\ Len(calls[1]) = 1
                 /\ calls[1][1].m = "setSoundSettings"
                 /\ calls[1][1].a = <<"hdmiOutput", value>>
            ELSE /\ calls[1] = <<>>
                 /\ pc[1] = "done" /\ outcome[1] = "BAD_REQUEST"

\* SYSTEM_HDMI_OUTPUT_B was sent as hdim_B and returned OK
C28_Witness ==
    /\ inp[1].command = "SYSTEM_HDMI_OUTPUT_B"
    /\ pc[1] = "done" /\ outcome[1] = "OK"
    /\ calls[1][1].a = <<"hdmiOutput", "hdim_B">>

\* the button mapping gives `button` the command `command`, and nothing else
MapsTo(button, command) ==
    /\ \E n \in 1..Len(button_mapping) : button_mapping[n] = create_btn_mapping(button, command)
    /\ \A n \in 1..Len(button_mapping) :
          button_mapping[n].button = button => button_mapping[n].short_press = command

Unmapped(button) == \A n \in 1..Len(button_mapping) : button_mapping[n].button # button

\* the INPUT_ command of a source of the kinds HDMI, TV, Bluetooth, analog, AirPlay
KindCommand(uri) ==
    CASE uri = "extInput:tv" -> <<"INPUT_TV">>
      [] uri = "extInput:hdmi?port=1" -> <<"INPUT_HDMI1">>
      [] uri = "extInput:hdmi?port=2" -> <<"INPUT_HDMI2">>
      [] uri = "extInput:btAudio" -> <<"INPUT_BLUETOOTH">>
      [] uri = "extInput:line" -> <<"INPUT_ANALOG">>
      [] uri = "extInput:airPlay" -> <<"INPUT_AIRPLAY">>
      [] OTHER -> <<>>

RECURSIVE KindCommands(_)
KindCommands(srcs) ==
    IF srcs = <<>> THEN <<>> ELSE KindCommand(Head(srcs).source) \o KindCommands(Tail(srcs))

\* C29 as stated: HOME is INPUT_TV iff a TV source is present, BACK is INPUT_HDMI1 iff
\* an HDMI port-1 source is present, CHANNEL_UP and CHANNEL_DOWN are the second and the
\* first of the ordered HDMI/TV/Bluetooth/analog/AirPlay inputs iff there are two or
\* more, and no channel button is mapped otherwise
C29_ButtonDefaults ==
    button_mapping # <<>> =>
        LET HasSource(uri) == \E n \in 1..Len(sources) : sources[n].source = uri
            inputs == KindCommands(sources)
        IN  /\ IF HasSource("extInput:tv") THEN MapsTo("HOME", "INPUT_TV") ELSE Unmapped("HOME")
            /\ IF HasSource("extInput:hdmi?port=1")
               THEN MapsTo("BACK", "INPUT_HDMI1") ELSE Unmapped("BACK")
            /\ IF Len(inputs) >= 2
               THEN MapsTo("CHANNEL_UP", inputs[2]) /\ MapsTo("CHANNEL_DOWN", inputs[1])
               ELSE Unmapped("CHANNEL_UP") /\ Unmapped("CHANNEL_DOWN")

\* the first setting of `settings` with the target, as a sequence of at most one
FirstWithTarget(settings, target) ==
    LET at == {n \in 1..Len(settings) :
                  "target" \in DOMAIN settings[n] /\ settings[n].target = target}
    IN  IF at = {} THEN <<>> ELSE <<settings[CHOOSE n \in at : \A m \in at : n <= m]>>

\* the recorded result is true iff the cache holds a setting with the target, the first
\* of the sound settings or else the first of the speaker settings, and the value is
\* among its candidate values
ResultIffCandidate ==
    validation # <<>> =>
        LET v == validation[1]
            inSound == FirstWithTarget(cache.sound_settings, v.target)
            found == IF inSound # <<>> THEN inSound
                     ELSE FirstWithTarget(cache.speaker_settings, v.target)
        IN  v.result <=>
                /\ found # <<>>
                /\ "candidate" \in DOMAIN found[1]
                /\ \E m \in 1..Len(found[1].candidate) :
                      /\ "value" \in DOMAIN found[1].candidate[m]
                      /\ found[1].candidate[m].value = v.value

\* C27: validate(target, value) is true iff the cache holds a setting with the target
\* (sound settings first, then speaker settings, first match wins) whose candidate
\* values hold the value, and a call of validate leaves the cache as it is
C27_Validate ==
    /\ []ResultIffCandidate
    /\ [][validation' # validation => cache' = cache]_vars

\* dimmer = dark was rejected: the first dimmer setting of the sound list does not offer
\* it, the second one and the dimmer setting of the speaker list do
C27_Witness ==
    /\ validation # <<>>
    /\ validation[1].target = "dimmer" /\ validation[1].value = "dark" /\ ~validation[1].result
    /\ Len(cache.sound_settings) = 2
    /\ cache.sound_settings[2].candidate[1].value = "dark"
    /\ Len(cache.speaker_settings) = 2


Answered ==
    /\ clientOp[1].reply.kind = "json"
    /\ "error" \notin DOMAIN clientOp[1].reply.data
    /\ clientOp[1].reply.data.result # <<>>

\* the last operation had to ask the device: every operation but close and a
\* device-info request on an instance that holds the device info
Asked ==
    /\ clientOp[1].op # "close"
    /\ clientOp[1].op \in {"get_device_info", "connect"} => clientOp[1].before.device_info = <<>>

\* C22: once a device-info fetch has succeeded every device-info request returns that
\* value and sends nothing; a failed fetch stores nothing, so the next request asks
\* again; the other operations always ask the device and leave the stored value alone
C22_DeviceInfoCached ==
    clientOp # <<>> =>
        LET o == clientOp[1]
        IN  /\ o.op = "get_device_info" =>
                 IF o.before.device_info # <<>>
                 THEN /\ o.sent = 0 /\ o.raised = ""
                      /\ o.value = o.before.device_info
                      /\ client.device_info = o.before.device_info
                 ELSE /\ o.sent = 1
                      /\ IF Answered
                         THEN o.value = <<o.reply.data.result[1]>> /\ client.device_info = o.value
                         ELSE o.raised # "" /\ client.device_info = <<>>
            /\ o.op \in {"get_volume_info", "set_power_status"} =>
                 /\ o.sent = 1
                 /\ client.device_info = o.before.device_info
                 /\ (o.op = "get_volume_info" /\ Answered) => o.value = <<o.reply.data.result[1]>>

\* a device-info request on an instance that holds "x" returned "x" although the
\* device would now answer "y"
C22_Witness ==
    /\ clientOp # <<>>
    /\ clientOp[1].op = "get_device_info"
    /\ clientOp[1].before.device_info = <<"x">>
    /\ clientOp[1].reply = [kind |-> "json", data |-> [result |-> <<"y">>]]
    /\ clientOp[1].value = <<"x">>

\* C23: connect() sends the device-info request, returns true when the reply holds a
\* result and false when the request failed in any way, and raises nothing
C23_ConnectNeverRaises ==
    (clientOp # <<>> /\ clientOp[1].op = "connect") =>
        /\ clientOp[1].raised = ""
        /\ clientOp[1].sent = 1
        /\ clientOp[1].value = <<Answered>>

\* connect() returned false after a timeout
C23_Witness ==
    /\ clientOp # <<>>
    /\ clientOp[1].op = "connect"
    /\ clientOp[1].reply.kind = "timeout"
    /\ clientOp[1].value = <<FALSE>>

\* C24: an operation that asks the device sends exactly one request, whether it
\* succeeds or fails, and leaves an open session behind: after the session was closed,
\* or before any session existed, it opens a new one and does not fail on the old one
C24_OneRequestPerCall ==
    (clientOp # <<>> /\ Asked) =>
        /\ clientOp[1].sent = 1
        /\ clientOp[1].raised # "RuntimeError"
        /\ client.session = "open"

\* a query on a closed session sent its request, which then failed in the transport
C24_Witness ==
    /\ clientOp # <<>>
    /\ clientOp[1].op = "get_volume_info"
    /\ clientOp[1].before.session = "closed"
    /\ clientOp[1].reply.kind = "transport"
    /\ clientOp[1].sent = 1
    /\ clientOp[1].raised = "ClientError"

\* C25: an operation whose reply holds an error field raises the protocol error with
\* the device's code, its message and the called method, and returns nothing; a query
\* whose reply holds no error field returns the first element of the result array,
\* when there is one
C25_ProtocolError ==
    (clientOp # <<>> /\ Asked /\ clientOp[1].op # "connect" /\ clientOp[1].reply.kind = "json") =>
        LET o == clientOp[1]
        IN  IF "error" \in DOMAIN o.reply.data
            THEN /\ o.raised = "SonyApiError"
                 /\ o.value = <<>>
                 /\ o.error # <<>>
                 /\ o.error[1].method = o.method
                 /\ Len(o.reply.data.error) >= 1 => o.error[1].code = o.reply.data.error[1]
                 /\ Len(o.reply.data.error) >= 2 => o.error[1].message = o.reply.data.error[2]
            ELSE (o.op # "set_power_status" /\ o.reply.data.result # <<>>) =>
                     o.raised = "" /\ o.value = <<o.reply.data.result[1]>>

\* a reply with a result and an error raised the protocol error of the error field
C25_Witness ==
    /\ clientOp # <<>>
    /\ clientOp[1].op = "get_volume_info"
    /\ clientOp[1].reply.kind = "json"
    /\ "result" \in DOMAIN clientOp[1].reply.data
    /\ clientOp[1].raised = "SonyApiError"
    /\ clientOp[1].error = <<[code |-> "40", message |-> "busy", method |-> "getVolumeInformation"]>>

\* the INPUT_ command of a labeled input: the name upper-cased, "-" and " " as "_"
LabeledCommand(uri) ==
    CASE uri = "extInput:game" -> "INPUT_GAME"
      [] uri = "extInput:bd-dvd" -> "INPUT_BD_DVD"
      [] uri = "extInput:sat-catv" -> "INPUT_SAT_CATV"
      [] uri = "extInput:mediaBox" -> "INPUT_MEDIABOX"
      [] OTHER -> ""

\* the fixed token of a well-known input, "" for the other URIs
FixedToken(uri) ==
    CASE uri = "extInput:tv" -> "INPUT_TV"
      [] uri = "extInput:btAudio" -> "INPUT_BLUETOOTH"
      [] uri = "extInput:line" -> "INPUT_ANALOG"
      [] uri = "extInput:airPlay" -> "INPUT_AIRPLAY"
      [] uri = "extInput:usb" -> "INPUT_USB"
      [] OTHER -> ""

\* C35 as stated: in the compiled command list every labeled input (game, bd-dvd,
\* sat-catv, mediaBox) has its INPUT_<NAME> command, and a fixed token (INPUT_TV,
\* INPUT_BLUETOOTH, INPUT_ANALOG, INPUT_AIRPLAY, INPUT_USB) is there only for a source
\* with the well-known URI of that token
C35_LabeledInputs ==
    simple_commands # <<>> =>
        /\ \A i \in 1..Len(sources) :
              LabeledCommand(sources[i].source) # ""
                  => InSeq(LabeledCommand(sources[i].source), simple_commands)
        /\ \A n \in 1..Len(simple_commands) :
              simple_commands[n] \in {"INPUT_TV", "INPUT_BLUETOOTH", "INPUT_ANALOG",
                                      "INPUT_AIRPLAY", "INPUT_USB"}
                  => \E i \in 1..Len(sources) : FixedToken(sources[i].source) = simple_commands[n]

\* C34: every call of a ZONE<N>_<ACTION> dispatch addresses extOutput:zone?zone=N with
\* the N of the command; VOLUME_UP and VOLUME_DOWN send +1 and -1, MUTE_TOGGLE reads
\* the volume information of that zone and sets the negation of the mute state read
C34_ZoneCallsAddressZone ==
    \A t \in Tasks :
        (Dispatched(t, "ZONE") /\ calls[t] # <<>>) =>
            LET command == inp[t].command
                uri == "extOutput:zone?zone=" \o SubSeq(command, 5, 5)
                action == SubSeq(command, 7, Len(command))
                first == calls[t][1]
            IN  /\ \A k \in 1..Len(calls[t]) : calls[t][k].a[1] = uri
                /\ action = "VOLUME_UP" => calls[t] = <<[first EXCEPT !.m = "setAudioVolume", !.a = <<uri, "+1">>]>>
                /\ action = "VOLUME_DOWN" => calls[t] = <<[first EXCEPT !.m = "setAudioVolume", !.a = <<uri, "-1">>]>>
                /\ action = "MUTE_TOGGLE" =>
                      /\ first.m = "getVolumeInformation"
                      /\ Len(calls[t]) <= 2
                      /\ Len(calls[t]) = 2 =>
                            /\ calls[t][2].m = "setAudioMute"
                            /\ calls[t][2].a[2] = (IF first.res = "off" THEN "on" ELSE "off")

\* ZONE2_MUTE_TOGGLE read the mute state "on" of zone 2 and has set it to "off"
C34_Witness ==
    /\ inp[1] = SendCommand("ZONE2_MUTE_TOGGLE")
    /\ pc[1] = "done" /\ outcome[1] = "OK"
    /\ Len(calls[1]) = 2
    /\ calls[1][1].a = <<"extOutput:zone?zone=2">> /\ calls[1][1].res = "on"
    /\ calls[1][2].a = <<"extOutput:zone?zone=2", "off">>

\* the zone list for the answers of the probes of zone 2 and zone 3: "ok" is a
\* non-empty result, "empty" an empty one, "fail" a raised call
ProbedZones(answers) ==
    <<1>> \o (IF answers[1] = "ok" THEN <<2>> ELSE <<>>)
          \o (IF answers[2] = "ok" THEN <<3>> ELSE <<>>)

\* C33: a refresh() whose two settings queries succeeded returns normally whatever the
\* zone probes did, and the zones of the cache then are 1 and each of 2 and 3 whose
\* probe returned a non-empty result, both for the refresh of the setup and for the
\* refresh of a dispatch
C33_ZonesFromProbes ==
    /\ (setup.pc \in {"entity", "sources", "done"} /\ cache.last_refresh = 1)
          => cache.zones = ProbedZones(setup.probes)
    /\ (pc[1] = "done" /\ pre[1] # <<>> /\ calls[1][1].r = "ok" /\ calls[1][2].r = "ok") =>
          /\ outcome[1] = "OK"
          /\ Len(ProbeAnswers(1)) = 2
          /\ cache.zones = ProbedZones(ProbeAnswers(1))

\* REFRESH_SETTINGS has returned OK after the probe of zone 2 raised and the probe of
\* zone 3 answered: the zones are 1 and 3
C33_Witness ==
    /\ pc[1] = "done" /\ outcome[1] = "OK" /\ pre[1] # <<>>
    /\ ProbeAnswers(1) = <<"fail", "ok">>
    /\ cache.zones = <<1, 3>>

\* the dispatch of task t is a power command: ON, OFF, TOGGLE or POWER_ON, POWER_OFF,
\* POWER_TOGGLE; IsToggle for the two that read the state
IsPower(i) ==
    \/ i.cmd_id \in {"on", "off", "toggle"}
    \/ i.cmd_id = "send_cmd" /\ i.command \in {"POWER_ON", "POWER_OFF", "POWER_TOGGLE"}

IsToggle(i) == i.cmd_id = "toggle" \/ (i.cmd_id = "send_cmd" /\ i.command = "POWER_TOGGLE")

\* the entity state that belongs to a power status sent to the device
SentState(status) == IF status = "active" THEN "ON" ELSE "OFF"

\* C37: a power command issues one setPowerStatus call; a toggle sends "active" when the
\* state it read at entry is OFF and "standby" otherwise; the state is written only by
\* the step in which that call succeeds, and then is the state of the status sent; when
\* the call fails the state keeps its value and the dispatch returns SERVER_ERROR
C37_PowerStateAfterSuccess ==
    [][\A t \in Tasks :
          /\ (pc[t] = "idle" /\ pc'[t] # "idle" /\ IsPower(inp'[t])) =>
                /\ pc'[t] = "power"
                /\ Len(calls'[t]) = 1 /\ calls'[t][1].m = "setPowerStatus"
                /\ inp'[t].cmd_id = "on" \/ inp'[t].command = "POWER_ON" => calls'[t][1].a = <<"active">>
                /\ inp'[t].cmd_id = "off" \/ inp'[t].command = "POWER_OFF" => calls'[t][1].a = <<"standby">>
                /\ IsToggle(inp'[t]) =>
                      calls'[t][1].a = <<IF entityState = "OFF" THEN "active" ELSE "standby">>
                /\ entityState' = entityState
          /\ (pc[t] = "power" /\ pc'[t] = "done") =>
                IF calls'[t][1].r = "ok"
                THEN outcome'[t] = "OK" /\ entityState' = SentState(calls'[t][1].a[1])
                ELSE outcome'[t] = "SERVER_ERROR" /\ entityState' = entityState
          /\ (pc[t] = "power" /\ pc'[t] # "done") => entityState' = entityState
    ]_vars

\* POWER_TOGGLE read the state ON, sent standby and has written OFF
C37_Witness ==
    /\ inp[1] = SendCommand("POWER_TOGGLE")
    /\ pc[1] = "done" /\ outcome[1] = "OK"
    /\ calls[1][1].a = <<"standby">>
    /\ entityState = "OFF"
    /\ devPower = "standby"

\* C39 as stated: when a power command has returned OK and the polling iteration that
\* ran beside it has finished with a status, and nothing but the command changed the
\* device, the entity's state is the state of the device's power status
C39_StateAfterOverlap ==
    (/\ pc[1] = "done" /\ outcome[1] = "OK" /\ IsPower(inp[1])
     /\ poll.pc = "sleep" /\ poll.status # Nothing)
        => entityState = PollState(devPower)

\* a step that is no dispatch and no change of the device's power status
QuietStep ==
    /\ devPower' = devPower
    /\ \A t \in Tasks : pc[t] = "idle" => pc'[t] = "idle"

\* C40: if from some time on the device's power status does not change, no command is
\* dispatched and no polling iteration fails, then from some time on the entity's state
\* is the state of the device's power status (ON for active, OFF otherwise) and stays so
C40_PollConverges ==
    (<>[][QuietStep]_vars /\ <>[](~poll.failed))
        => <>[](entityState = (IF devPower = "active" THEN "ON" ELSE "OFF"))

\* a polling iteration has corrected the state after a change made at the device
C40_Witness ==
    /\ poll.pc = "sleep" /\ poll.status = <<"active">>
    /\ devPower = "active" /\ entityState = "ON"
    /\ \A t \in Tasks : pc[t] = "idle" /\ calls[t] = <<>>

\* C31: the polling loop never ends while the registry holds the device, and after a
\* failed iteration it starts another one; a dispatch returns OK exactly when its own
\* call succeeded, and the step in which a dispatch fails changes neither the polling
\* task nor the position, the calls or the outcome of the other dispatch
C31_FailuresAreLocal ==
    /\ [](poll.pc # "ended")
    /\ (poll.pc = "sleep" /\ poll.failed) ~> (poll.pc = "get")
    /\ [](\A t \in Tasks : pc[t] = "done" => (outcome[t] = "OK" <=> calls[t][1].r = "ok"))
    /\ [][\A t \in Tasks :
            (pc[t] = "power" /\ pc'[t] = "done" /\ outcome'[t] # "OK") =>
                /\ poll' = poll
                /\ \A u \in Tasks \ {t} :
                      pc'[u] = pc[u] /\ calls'[u] = calls[u] /\ outcome'[u] = outcome[u]
       ]_vars

\* after a failed polling iteration and a failed dispatch of task 1 the loop is in its
\* next iteration, and the dispatch of task 2 has returned OK
C31_Witness ==
    /\ poll.pc = "get" /\ poll.failed
    /\ pc[1] = "done" /\ outcome[1] = "SERVER_ERROR"
    /\ pc[2] = "done" /\ outcome[2] = "OK"

\* the commands the UI pages and the button mapping offer
OfferedCommands ==
    UNION {Range(ui_pages[n].commands) : n \in 1..Len(ui_pages)}
    \cup {button_mapping[n].short_press : n \in 1..Len(button_mapping)}

\* C38 as stated: once the entity is created, every command of a UI page item and of a
\* button mapping is in the entity's command list
C38_OfferedIsAdvertised ==
    simple_commands # <<>> => OfferedCommands \subseteq Range(simple_commands)

\* the speaker settings of the cache that are numeric ranges and available
RangeSettings ==
    SelectSeq(cache.speaker_settings,
              LAMBDA s : /\ "type" \in DOMAIN s /\ s.type = "doubleNumberTarget"
                         /\ ("isAvailable" \in DOMAIN s => s.isAvailable))

\* the field of the setting's first range candidate, or the default when the setting
\* has no candidate or the candidate omits the field
RangeValue(s, field, default) ==
    IF "candidate" \in DOMAIN s /\ s.candidate # <<>> /\ field \in DOMAIN s.candidate[1]
    THEN s.candidate[1][field] ELSE default

\* C36 as stated: get_available_speaker_controls does not raise, and returns one entry
\* per available numeric-range speaker setting, in cache order, with the setting's
\* target and the device's min, max and step or the defaults -10, 10 and 0.5 (kept
\* in tenths)
C36_SpeakerControls ==
    controls # Nothing =>
        /\ ~controls[1].raised
        /\ Len(controls[1].value) = Len(RangeSettings)
        /\ \A i \in 1..Len(RangeSettings) :
              /\ controls[1].value[i][1] = RangeSettings[i].target
              /\ controls[1].value[i][3] = RangeValue(RangeSettings[i], "min", DefaultMin)
              /\ controls[1].value[i][4] = RangeValue(RangeSettings[i], "max", DefaultMax)
              /\ controls[1].value[i][5] = RangeValue(RangeSettings[i], "step", DefaultStep)

\* C32: a dispatch for one device leaves the client, the cache, the source list and the
\* entity state of every other registered device as they were
C32_OtherDevicesUnchanged ==
    [][\A b \in Entities :
          (dispatched' # Nothing /\ dispatched'[1].id # b) => registry'[b] = registry[b]]_vars

\* a REFRESH_SETTINGS for the first device replaced its cache while the second device
\* keeps the cache of its setup and a client no dispatch has used
C32_Witness ==
    /\ dispatched # Nothing
    /\ dispatched[1].id = "sony_A"
    /\ dispatched[1].i = SendCommand("REFRESH_SETTINGS")
    /\ registry["sony_A"].cache.last_refresh = 2
    /\ registry["sony_A"].client.sent = "getVolumeInformation"
    /\ registry["sony_B"].cache.last_refresh = 1
    /\ registry["sony_B"].client.sent = ""

=============================================================================
